---- MODULE Spec2Model ----
(***************************************************************************)
(* A model of the retrieval / filter / generate pipeline of the AFI RAG    *)
(* chat system (server/scripts/rag, server/scripts/query).                 *)
(*                                                                         *)
(* Conventions.                                                            *)
(*  - Similarities and distances are fixed-point numbers in hundredths:    *)
(*    One = 100 stands for 1.0, the 0.01 depth penalty is 1.               *)
(*  - A text is the sequence of its tokens; a paragraph identifier is the  *)
(*    sequence of its characters (an annotation such as "(T-1)" is one     *)
(*    element, since the code removes it as a whole).                      *)
(*  - Every component has its own specification (SpecDescendant,           *)
(*    SpecExpand, ...), which keeps the other components' variables at     *)
(*    their idle values.                                                   *)
(***************************************************************************)
EXTENDS Integers, Sequences, FiniteSets, TLC

VARIABLES
    \* is_descendant applied to a pair of token sequences
    d_candidate, d_ancestor, d_result, d_pc,
    \* expand_with_descendants
    x_store, x_seeds, x_max_depth, x_sorted, x_i, x_expanded, x_seen_ids,
    x_afi_cache, x_pc,
    \* RelevanceFilter.filter
    f_search_results, f_floor, f_response, f_calls, f_out, f_pc,
    \* truncate_context_if_needed
    t_context, t_token_limit, t_notice_len, t_out, t_pc,
    \* ResponseGenerator.generate
    g_model, g_sources, g_calls, g_primary, g_generation_model, g_answer_text,
    g_result, g_pc,
    \* RetrievalEngine.search_documents
    s_metric, s_min_score, s_n_results, s_embedding, s_documents, s_distances,
    s_store_queries, s_out, s_pc,
    \* RAGChatSystem.generate_rag_response
    o_n_results, o_use_filter, o_max_tokens, o_notice_len, o_afi_number,
    o_default_max_tokens, o_search_results, o_first_retrieval, o_retrievals,
    o_procedural_mode, o_apply_filter, o_filtered_results, o_filter_calls,
    o_assembled, o_assemble_calls, o_generate_requests, o_generate_calls,
    o_envelope, o_exception, o_pc, o_context_token_limit, o_request,
    o_retrieval_requests, o_filter_metadata, o_resolve_searches,
    \* RetrievalEngine.get_query_embedding and its cache
    c_capacity, c_cache, c_used, c_clock, c_service_calls, c_last, c_threads,
    \* RetrievalEngine.enhance_query_for_search, applied once and again
    q_query, q_tweaks, q_once, q_twice, q_pc

descVars == <<d_candidate, d_ancestor, d_result, d_pc>>
expandVars == <<x_store, x_seeds, x_max_depth, x_sorted, x_i, x_expanded,
                x_seen_ids, x_afi_cache, x_pc>>
filterVars == <<f_search_results, f_floor, f_response, f_calls, f_out, f_pc>>
truncVars == <<t_context, t_token_limit, t_notice_len, t_out, t_pc>>
genVars == <<g_model, g_sources, g_calls, g_primary, g_generation_model,
             g_answer_text, g_result, g_pc>>
searchVars == <<s_metric, s_min_score, s_n_results, s_embedding, s_documents,
                s_distances, s_store_queries, s_out, s_pc>>
orchVars == <<o_n_results, o_use_filter, o_max_tokens, o_notice_len, o_afi_number,
              o_default_max_tokens, o_search_results, o_first_retrieval, o_retrievals,
              o_procedural_mode, o_apply_filter, o_filtered_results, o_filter_calls,
              o_assembled, o_assemble_calls, o_generate_requests, o_generate_calls,
              o_envelope, o_exception, o_pc, o_context_token_limit, o_request,
              o_retrieval_requests, o_filter_metadata, o_resolve_searches>>
cacheVars == <<c_capacity, c_cache, c_used, c_clock, c_service_calls, c_last, c_threads>>
enhanceVars == <<q_query, q_tweaks, q_once, q_twice, q_pc>>
vars == <<descVars, expandVars, filterVars, truncVars, genVars, searchVars, orchVars,
          cacheVars, enhanceVars>>

\* ------------------------------------------------------------------ bounds

\* longest token sequence handed to is_descendant
MaxParts == 3
\* most seeds handed to expand_with_descendants
MaxSeeds == 2
\* largest max_depth handed to expand_with_descendants
MaxDepth == 2

\* most candidates handed to RelevanceFilter.filter
MaxCands == 4
\* most elements of the array the relevance model answers with
MaxItems == 2

\* most tokens of a context, largest token limit, most tokens of the
\* truncation notice
MaxContextTokens == 5
MaxTokenLimit == 5
MaxNoticeTokens == 3

\* most sources handed to ResponseGenerator.generate
MaxSources == 2

\* most hits the vector store returns to search_documents
MaxHits == 3

\* most passages one retrieval hands to generate_rag_response
MaxRetrieved == 2
\* largest max_tokens a request asks for
MaxCompletionTokens == 2

\* levels of the deepest stored paragraph below its chapter paragraph
DeepLevels == 16

\* largest embedding_cache_size
MaxCapacity == 2
\* most get_query_embedding calls made one after the other on one engine
MaxCacheCalls == 4

\* get_query_embedding calls in flight at once
MaxThreads == 2

\* generate_rag_response calls made one after the other on one system
MaxRequests == 2

\* longest query given to enhance_query_for_search, in characters
MaxQueryLen == 2

\* 1.0 in hundredths
One == 100

\* ---------------------------------------------------------------- helpers

Min(a, b) == IF a <= b THEN a ELSE b
Max(a, b) == IF a >= b THEN a ELSE b

Range(s) == {s[i] : i \in 1..Len(s)}

\* s[:n] of Python for n >= 0
Take(s, n) == SubSeq(s, 1, Min(n, Len(s)))

\* all sequences over S of length at most n
SeqsUpTo(S, n) == UNION {[1..k -> S] : k \in 0..n}

\* ------------------------------------------------- paragraph identifiers

\* the annotation suffixes normalize_paragraph_parts removes
Annotations == {"(Added)", "(Added-ANG)", "(T-0)", "(T-1)", "(T-2)", "(T-3)", "(Mandatory)"}

\* the characters re.sub(r"[^0-9A-Za-z-]", "", token) keeps
TokenChars == {"0", "1", "2", "8", "9", "z", "-"}

\* code point order of the characters of the model ("(Added)" < "(T-1)" by
\* their second character)
CharRank(c) ==
    CASE c = " " -> 32
      [] c = "(Added)" -> 40
      [] c = "(T-1)" -> 41
      [] c = "-" -> 45
      [] c = "." -> 46
      [] c = "0" -> 48
      [] c = "1" -> 49
      [] c = "2" -> 50
      [] c = "8" -> 56
      [] c = "9" -> 57
      [] c = "z" -> 122
      [] OTHER -> 0

RECURSIVE StripLeft(_)
StripLeft(s) == IF s # <<>> /\ Head(s) = " " THEN StripLeft(Tail(s)) ELSE s

RECURSIVE StripRight(_)
StripRight(s) ==
    IF s # <<>> /\ s[Len(s)] = " " THEN StripRight(SubSeq(s, 1, Len(s) - 1)) ELSE s

\* str.strip()
Strip(s) == StripRight(StripLeft(s))

\* ParagraphEntry.paragraph_id: the stripped metadata value
paragraph_id(entry) == Strip(entry.paragraph)

\* the tokens of a cleaned identifier: split on ".", keep of each piece the
\* token characters, drop the pieces that end up empty
RECURSIVE SplitParts(_, _, _)
SplitParts(s, cur, acc) ==
    IF s = <<>>
        THEN IF cur = <<>> THEN acc ELSE Append(acc, cur)
        ELSE IF Head(s) = "."
            THEN SplitParts(Tail(s), <<>>, IF cur = <<>> THEN acc ELSE Append(acc, cur))
            ELSE IF Head(s) \in TokenChars
                THEN SplitParts(Tail(s), Append(cur, Head(s)), acc)
                ELSE SplitParts(Tail(s), cur, acc)

normalize_paragraph_parts(paragraph) ==
    LET cleaned == Strip(paragraph)
        without == SelectSeq(cleaned, LAMBDA c : c \notin Annotations)
    IN IF cleaned = <<>> THEN <<>> ELSE SplitParts(without, <<>>, <<>>)

is_descendant(candidate, ancestor) ==
    IF ancestor = <<>>
        THEN FALSE
        ELSE IF Len(candidate) <= Len(ancestor)
            THEN candidate = ancestor
            ELSE SubSeq(candidate, 1, Len(ancestor)) = ancestor

\* ---------------------------------------------- SpecDescendant: is_descendant

\* the tokens of the pairs tried
TokenPool == {<<"8">>, <<"9">>}

DescOff ==
    /\ d_candidate = <<>>
    /\ d_ancestor = <<>>
    /\ d_result = [fwd |-> FALSE, bwd |-> FALSE]
    /\ d_pc = "off"

DescInit ==
    /\ d_candidate \in SeqsUpTo(TokenPool, MaxParts)
    /\ d_ancestor \in SeqsUpTo(TokenPool, MaxParts)
    /\ d_result = [fwd |-> FALSE, bwd |-> FALSE]
    /\ d_pc = "call"

\* is_descendant(B, A) and is_descendant(A, B) for the pair drawn
CallIsDescendant ==
    /\ d_pc = "call"
    /\ d_result' = [fwd |-> is_descendant(d_candidate, d_ancestor),
                    bwd |-> is_descendant(d_ancestor, d_candidate)]
    /\ d_pc' = "done"
    /\ UNCHANGED <<d_candidate, d_ancestor>>

\* ------------------------------------------- expand_with_descendants

\* Python's comparison of two strings: -1, 0 or 1
RECURSIVE StrCmp(_, _)
StrCmp(s, t) ==
    IF s = <<>> /\ t = <<>> THEN 0
    ELSE IF s = <<>> THEN -1
    ELSE IF t = <<>> THEN 1
    ELSE IF CharRank(Head(s)) < CharRank(Head(t)) THEN -1
    ELSE IF CharRank(Head(s)) > CharRank(Head(t)) THEN 1
    ELSE StrCmp(Tail(s), Tail(t))

\* Python's comparison of two tuples of strings
RECURSIVE TupleCmp(_, _)
TupleCmp(p, q) ==
    IF p = <<>> /\ q = <<>> THEN 0
    ELSE IF p = <<>> THEN -1
    ELSE IF q = <<>> THEN 1
    ELSE IF StrCmp(Head(p), Head(q)) # 0 THEN StrCmp(Head(p), Head(q))
    ELSE TupleCmp(Tail(p), Tail(q))

\* load_afi_entries.sort_key: (len(parts), parts, paragraph_id), an entry
\* without a paragraph sorting as "zzzz"
sort_key(entry) ==
    LET pid == IF paragraph_id(entry) = <<>> THEN <<"z", "z", "z", "z">>
               ELSE paragraph_id(entry)
        parts == normalize_paragraph_parts(pid)
    IN [len |-> Len(parts), parts |-> parts, pid |-> pid]

\* key a sorts strictly before key b
KeyLess(a, b) ==
    \/ a.len < b.len
    \/ a.len = b.len /\ TupleCmp(a.parts, b.parts) < 0
    \/ a.len = b.len /\ TupleCmp(a.parts, b.parts) = 0 /\ StrCmp(a.pid, b.pid) < 0

\* list.sort(key=sort_key): a stable insertion of each entry after the
\* entries that do not sort after it
RECURSIVE InsertByKey(_, _)
InsertByKey(e, sorted) ==
    IF sorted = <<>> THEN <<e>>
    ELSE IF KeyLess(sort_key(e), sort_key(Head(sorted)))
        THEN <<e>> \o sorted
        ELSE <<Head(sorted)>> \o InsertByKey(e, Tail(sorted))

RECURSIVE SortByKey(_, _)
SortByKey(s, acc) ==
    IF s = <<>> THEN acc ELSE SortByKey(Tail(s), InsertByKey(Head(s), acc))

\* the entries collection.get(where={"afi_number": afi_number}) returns,
\* sorted by sort_key
load_afi_entries(collection, afi_number) ==
    SortByKey(SelectSeq(collection, LAMBDA e : e.afi = afi_number), <<>>)

\* sorted(..., key=similarity_score, reverse=True): stable, so passages of
\* equal similarity keep their order
RECURSIVE InsertBySimilarity(_, _)
InsertBySimilarity(e, sorted) ==
    IF sorted = <<>> THEN <<e>>
    ELSE IF e.similarity_score > Head(sorted).similarity_score
        THEN <<e>> \o sorted
        ELSE <<Head(sorted)>> \o InsertBySimilarity(e, Tail(sorted))

RECURSIVE SortBySimilarityDesc(_, _)
SortBySimilarityDesc(s, acc) ==
    IF s = <<>> THEN acc
    ELSE SortBySimilarityDesc(Tail(s), InsertBySimilarity(Head(s), acc))

\* the penalty per level of depth (0.01) and its cap (0.15), in hundredths
PenaltyStep == 1
PenaltyCap == 15

\* a faulty variant: the penalty grows with the depth without a cap
adjusted_similarity_uncapped(seed_similarity, depth) ==
    Max(seed_similarity - depth * PenaltyStep, 0)

\* max(seed_similarity - min(depth * 0.01, 0.15), 0.0)
adjusted_similarity(seed_similarity, depth) ==
    LET similarity_penalty == Min(depth * PenaltyStep, PenaltyCap)
    IN Max(seed_similarity - similarity_penalty, 0)

\* a faulty variant: the inner loop does not look at seen_ids
RECURSIVE ScanEntries_no_seen_check(_, _, _, _, _)
ScanEntries_no_seen_check(entries, ancestor_parts, seed_similarity, max_depth, acc) ==
    IF entries = <<>> THEN acc
    ELSE
        LET entry == Head(entries)
            candidate_parts == normalize_paragraph_parts(paragraph_id(entry))
            depth == Max(Len(candidate_parts) - Len(ancestor_parts), 0)
            skip ==
                \/ paragraph_id(entry) = <<>>
                \/ candidate_parts = <<>>
                \/ ~is_descendant(candidate_parts, ancestor_parts)
                \/ depth > max_depth
            next ==
                IF skip THEN acc
                ELSE [expanded |-> Append(acc.expanded,
                                      [id |-> entry.id, afi |-> entry.afi,
                                       paragraph |-> entry.paragraph,
                                       similarity_score |->
                                           adjusted_similarity(seed_similarity, depth)]),
                      seen_ids |-> acc.seen_ids \cup {entry.id}]
        IN ScanEntries_no_seen_check(Tail(entries), ancestor_parts, seed_similarity,
                                     max_depth, next)

\* the inner loop of expand_with_descendants over one document's entries:
\* acc = [expanded, seen_ids]
RECURSIVE ScanEntries(_, _, _, _, _)
ScanEntries(entries, ancestor_parts, seed_similarity, max_depth, acc) ==
    IF entries = <<>> THEN acc
    ELSE
        LET entry == Head(entries)
            candidate_parts == normalize_paragraph_parts(paragraph_id(entry))
            depth == Max(Len(candidate_parts) - Len(ancestor_parts), 0)
            skip ==
                \/ paragraph_id(entry) = <<>>
                \/ candidate_parts = <<>>
                \/ ~is_descendant(candidate_parts, ancestor_parts)
                \/ entry.id \in acc.seen_ids
                \/ depth > max_depth
            next ==
                IF skip THEN acc
                ELSE [expanded |-> Append(acc.expanded,
                                      [id |-> entry.id, afi |-> entry.afi,
                                       paragraph |-> entry.paragraph,
                                       similarity_score |->
                                           adjusted_similarity(seed_similarity, depth)]),
                      seen_ids |-> acc.seen_ids \cup {entry.id}]
        IN ScanEntries(Tail(entries), ancestor_parts, seed_similarity, max_depth, next)

\* n levels ".1" below a paragraph
RECURSIVE Sublevels(_)
Sublevels(n) == IF n = 0 THEN <<>> ELSE <<".", "1">> \o Sublevels(n - 1)

\* the stored passages, in the order collection.get returns them
Pool ==
    << [id |-> "e4", afi |-> "A", paragraph |-> <<"8", ".", "9", ".", "2", ".", "1">>],
       [id |-> "e1", afi |-> "A", paragraph |-> <<"8", ".", "9">>],
       [id |-> "e2", afi |-> "A", paragraph |-> <<"8", ".", "9", " ", "(T-1)">>],
       [id |-> "e3", afi |-> "A", paragraph |-> <<" ", "8", ".", "9", ".", "2">>],
       [id |-> "e5", afi |-> "B", paragraph |-> <<"8", ".", "9", ".", "2">>],
       [id |-> "e6", afi |-> "A", paragraph |-> <<"8", ".", "1", "0">>],
       [id |-> "e7", afi |-> "A", paragraph |-> <<>>],
       [id |-> "e8", afi |-> "A",
        paragraph |-> <<"8", ".", "1", "0">> \o Sublevels(DeepLevels)] >>

\* the stored passages a collection may lack
OptionalIds == {"e2", "e4", "e8"}

\* the stored passages a search returns as seeds
SeedableIds == {"e1", "e3", "e5", "e6", "e7"}

\* the similarities of the seeds
SeedSims == {80, 1}

Seed(entry, sim) ==
    [id |-> entry.id, afi |-> entry.afi, paragraph |-> entry.paragraph,
     similarity_score |-> sim]

ExpandOff ==
    /\ x_store = <<>>
    /\ x_seeds = <<>>
    /\ x_max_depth = 0
    /\ x_sorted = <<>>
    /\ x_i = 0
    /\ x_expanded = <<>>
    /\ x_seen_ids = {}
    /\ x_afi_cache = <<>>
    /\ x_pc = "off"

ExpandInit ==
    /\ \E missing \in SUBSET OptionalIds :
           x_store = SelectSeq(Pool, LAMBDA e : e.id \notin missing)
    /\ x_seeds \in SeqsUpTo({Seed(e, s) : e \in {r \in Range(x_store) : r.id \in SeedableIds},
                                           s \in SeedSims}, MaxSeeds)
    /\ x_max_depth \in 0..MaxDepth \cup {DeepLevels}
    /\ x_sorted = <<>>
    /\ x_i = 0
    /\ x_expanded = <<>>
    /\ x_seen_ids = {}
    /\ x_afi_cache = <<>>
    /\ x_pc = "start"

\* expand_with_descendants up to its loop: the seeds sorted by similarity
ExpandStart ==
    /\ x_pc = "start"
    /\ x_sorted' = SortBySimilarityDesc(x_seeds, <<>>)
    /\ x_i' = 1
    /\ x_pc' = "loop"
    /\ UNCHANGED <<x_store, x_seeds, x_max_depth, x_expanded, x_seen_ids, x_afi_cache>>

\* one iteration of the loop over sorted_seeds
ExpandSeed ==
    /\ x_pc = "loop"
    /\ x_i <= Len(x_sorted)
    /\ LET seed == x_sorted[x_i]
           fresh == seed.id \notin x_seen_ids
           with_seed == [expanded |-> IF fresh THEN Append(x_expanded, seed) ELSE x_expanded,
                         seen_ids |-> x_seen_ids \cup {seed.id}]
           expandable == seed.paragraph # <<>>
           cached == \E k \in 1..Len(x_afi_cache) : x_afi_cache[k].afi = seed.afi
           cache == IF ~expandable \/ cached THEN x_afi_cache
                    ELSE Append(x_afi_cache,
                                [afi |-> seed.afi,
                                 entries |-> load_afi_entries(x_store, seed.afi)])
           entries == (CHOOSE c \in Range(cache) : c.afi = seed.afi).entries
           ancestor_parts == normalize_paragraph_parts(seed.paragraph)
           result == IF ~expandable \/ ancestor_parts = <<>> THEN with_seed
                     ELSE ScanEntries(entries, ancestor_parts, seed.similarity_score,
                                      x_max_depth, with_seed)
       IN /\ x_expanded' = result.expanded
          /\ x_seen_ids' = result.seen_ids
          /\ x_afi_cache' = cache
    /\ x_i' = x_i + 1
    /\ UNCHANGED <<x_store, x_seeds, x_max_depth, x_sorted, x_pc>>

\* the loop is over: expanded is returned
ExpandReturn ==
    /\ x_pc = "loop"
    /\ x_i > Len(x_sorted)
    /\ x_pc' = "done"
    /\ UNCHANGED <<x_store, x_seeds, x_max_depth, x_sorted, x_i, x_expanded,
                   x_seen_ids, x_afi_cache>>

\* ------------------------------------------------ claims: hierarchy expander

\* A is a proper prefix of B
ProperPrefix(A, B) == Len(A) < Len(B) /\ SubSeq(B, 1, Len(A)) = A

\* C6: if A is a non-empty proper prefix of B then is_descendant(B, A) is
\* true and is_descendant(A, B) is false; for equal sequences both calls
\* return false.
C6_StrictAncestry ==
    d_pc = "done" =>
        /\ (d_ancestor # <<>> /\ ProperPrefix(d_ancestor, d_candidate))
               => (d_result.fwd /\ ~d_result.bwd)
        /\ (d_candidate = d_ancestor) => (~d_result.fwd /\ ~d_result.bwd)

SeedIds == {x_seeds[k].id : k \in 1..Len(x_seeds)}

\* C7: with max_depth = 0 the result holds the seeds and nothing else.
C7_DepthZeroOnlySeeds ==
    (x_pc = "done" /\ x_max_depth = 0) =>
        /\ \A k \in 1..Len(x_expanded) : x_expanded[k].id \in SeedIds
        /\ {x_expanded[k].id : k \in 1..Len(x_expanded)} = SeedIds
        /\ Len(x_expanded) = Cardinality(SeedIds)

\* C8: every emitted passage that is not a seed is of a seed's document and
\* properly extends that seed's tokens by 1..max_depth tokens.
C8_NonSeedsAreBoundedDescendants ==
    x_pc = "done" =>
        \A k \in 1..Len(x_expanded) :
            x_expanded[k].id \notin SeedIds =>
                \E j \in 1..Len(x_seeds) :
                    LET parts == normalize_paragraph_parts(x_expanded[k].paragraph)
                        seed_parts == normalize_paragraph_parts(x_seeds[j].paragraph)
                    IN /\ x_seeds[j].afi = x_expanded[k].afi
                       /\ ProperPrefix(seed_parts, parts)
                       /\ Len(parts) - Len(seed_parts) >= 1
                       /\ Len(parts) - Len(seed_parts) <= x_max_depth

\* the passages an ExpandSeed step appends after the seed itself
AddedForSeed ==
    LET seed == x_sorted[x_i]
        first == Len(x_expanded) + (IF seed.id \in x_seen_ids THEN 0 ELSE 1) + 1
    IN SubSeq(x_expanded', first, Len(x_expanded'))

\* levels of a passage below the seed of the current step
DepthBelowSeed(passage) ==
    Len(normalize_paragraph_parts(passage.paragraph))
        - Len(normalize_paragraph_parts(x_sorted[x_i].paragraph))

\* C12: every passage emitted for a seed of similarity s >= 0 at depth d
\* carries max(s - min(d * step, cap), 0), a value within [0, s], and the
\* passages added for one seed come in non-decreasing depth order.
C12_PenaltyAndDepthOrder ==
    [][(x_pc = "loop" /\ x_i' = x_i + 1) =>
          LET s == x_sorted[x_i].similarity_score
              added == AddedForSeed
          IN \A k \in 1..Len(added) :
                 LET d == DepthBelowSeed(added[k])
                     penalty == IF d * PenaltyStep < PenaltyCap THEN d * PenaltyStep
                                ELSE PenaltyCap
                 IN /\ d >= 0
                    /\ added[k].similarity_score =
                           (IF s - penalty > 0 THEN s - penalty ELSE 0)
                    /\ added[k].similarity_score >= 0
                    /\ added[k].similarity_score <= s
                    /\ k > 1 => DepthBelowSeed(added[k - 1]) <= d]_vars

\* C12's case: seed 8.9 at 0.80 with max_depth 2 gave 8.9.2 at 0.79 and then
\* 8.9.2.1 at 0.78
C12_Witness ==
    /\ x_pc = "done"
    /\ x_max_depth = 2
    /\ \E j \in 1..Len(x_seeds) : x_seeds[j].id = "e1" /\ x_seeds[j].similarity_score = 80
    /\ \E k \in 1..(Len(x_expanded) - 1) :
           /\ x_expanded[k].id = "e3" /\ x_expanded[k].similarity_score = 79
           /\ x_expanded[k + 1].id = "e4" /\ x_expanded[k + 1].similarity_score = 78

\* the ids of a list of passages
IdsOf(passages) == {passages[k].id : k \in 1..Len(passages)}

\* the stored passages that properly extend the seed of the current step by
\* at most max_depth tokens, in the seed's document
BoundedDescendantIds ==
    LET seed == x_sorted[x_i]
        seed_parts == normalize_paragraph_parts(seed.paragraph)
    IN IF seed_parts = <<>> THEN {}
       ELSE {x_store[k].id : k \in
               {j \in 1..Len(x_store) :
                   LET parts == normalize_paragraph_parts(x_store[j].paragraph)
                   IN /\ x_store[j].afi = seed.afi
                      /\ ProperPrefix(seed_parts, parts)
                      /\ Len(parts) - Len(seed_parts) <= x_max_depth}}

\* C22: the output never holds one id twice and is in first-seen order: the
\* seeds are visited in descending similarity order, a seed not yet present
\* is appended when visited and its descendants not yet present follow it
\* at once; what was emitted stays where it is and is not emitted again.
C22_UniqueFirstSeenOrder ==
    [][(x_pc = "start" /\ x_pc' = "loop"
            => \A k \in 1..(Len(x_sorted') - 1) :
                   x_sorted'[k].similarity_score >= x_sorted'[k + 1].similarity_score)
       /\ (x_pc = "loop" /\ x_i' = x_i + 1
            => LET seed == x_sorted[x_i]
                   before == IdsOf(x_expanded)
                   own == IF seed.id \in before THEN <<>> ELSE <<seed>>
                   added == SubSeq(x_expanded', Len(x_expanded) + Len(own) + 1,
                                   Len(x_expanded'))
               IN /\ Len(x_expanded') >= Len(x_expanded) + Len(own)
                  /\ SubSeq(x_expanded', 1, Len(x_expanded) + Len(own))
                         = x_expanded \o own
                  /\ \A k \in 1..Len(added) : added[k].id \notin before \cup {seed.id}
                  /\ BoundedDescendantIds \ (before \cup {seed.id}) \subseteq IdsOf(added)
                  /\ \A i, j \in 1..Len(x_expanded') :
                         i # j => x_expanded'[i].id # x_expanded'[j].id)]_vars

\* C22's case: seed 8.9.2 at 0.80 came first with its descendant 8.9.2.1;
\* seed 8.9 at 0.01 followed, and neither 8.9.2 nor 8.9.2.1 came again
C22_Witness ==
    /\ x_pc = "done"
    /\ x_max_depth = 2
    /\ Len(x_seeds) = 2
    /\ x_seeds[1].id = "e1" /\ x_seeds[1].similarity_score = 1
    /\ x_seeds[2].id = "e3" /\ x_seeds[2].similarity_score = 80
    /\ Len(x_expanded) >= 3
    /\ x_expanded[1].id = "e3" /\ x_expanded[2].id = "e4" /\ x_expanded[3].id = "e1"
    /\ Cardinality(IdsOf(x_expanded)) = Len(x_expanded)

\* C29: every seed (the seeds being distinct passages) is in the output
\* exactly once and with its own similarity_score, also when it is a
\* descendant of another seed of higher score.
C29_SeedsKeepOwnScore ==
    (x_pc = "done" /\ \A i, j \in 1..Len(x_seeds) : i # j => x_seeds[i].id # x_seeds[j].id)
        => \A j \in 1..Len(x_seeds) :
               /\ Cardinality({k \in 1..Len(x_expanded) : x_expanded[k].id = x_seeds[j].id}) = 1
               /\ \A k \in 1..Len(x_expanded) :
                      x_expanded[k].id = x_seeds[j].id
                          => x_expanded[k].similarity_score = x_seeds[j].similarity_score

\* the cap at work: the sixteenth-level paragraph under seed 8.10 at 0.80
\* comes out at 0.65
C12_CapReached ==
    /\ x_pc = "done"
    /\ \E j \in 1..Len(x_seeds) : x_seeds[j].id = "e6" /\ x_seeds[j].similarity_score = 80
    /\ \E k \in 1..Len(x_expanded) :
           x_expanded[k].id = "e8" /\ x_expanded[k].similarity_score = 65

\* ------------------------------------------------------- RelevanceFilter

\* config.filter_min_similarity clamped at 0: the similarity floor
FilterThreshold(floor) == Max(0, floor)

\* a faulty variant: the candidates under the floor are dropped and nothing is
\* kept when none meets it
_similarity_fallback_floor_only(search_results, floor) ==
    Take(SelectSeq(SortBySimilarityDesc(search_results, <<>>),
                   LAMBDA item : item.similarity_score >= FilterThreshold(floor)), 3)

_similarity_fallback(search_results, floor) ==
    IF search_results = <<>> THEN <<>>
    ELSE
        LET threshold == FilterThreshold(floor)
            sorted_results == SortBySimilarityDesc(search_results, <<>>)
            candidates == SelectSeq(sorted_results,
                                    LAMBDA item : item.similarity_score >= threshold)
            limit == Min(3, Len(candidates))
        IN IF candidates = <<>>
               THEN Take(sorted_results, Min(3, Len(sorted_results)))
               ELSE Take(candidates, IF limit # 0 THEN limit ELSE 1)

\* isinstance(idx, int): Python's bool is a subclass of int, so the JSON
\* literals true and false pass as 1 and 0
IsPythonInt(item) == item.t \in {"int", "bool"}

\* the loop over the parsed array: the indices kept, first occurrence only,
\* or "invalid" at the first element that is no integer or out of range
RECURSIVE KeepIndices(_, _, _)
KeepIndices(parsed, n, keep_indices) ==
    IF parsed = <<>> THEN [ok |-> TRUE, keep |-> keep_indices]
    ELSE IF ~IsPythonInt(Head(parsed)) THEN [ok |-> FALSE, keep |-> <<>>]
    ELSE IF ~(1 <= Head(parsed).v /\ Head(parsed).v <= n) THEN [ok |-> FALSE, keep |-> <<>>]
    ELSE KeepIndices(Tail(parsed), n,
                     IF Head(parsed).v \in Range(keep_indices) THEN keep_indices
                     ELSE Append(keep_indices, Head(parsed).v))

\* a faulty variant: the passages selected are returned after the floor
\* even when none is left
FilterOutcome_no_floor_fallback(search_results, floor, response) ==
    IF response.kind \in {"raise", "empty", "nonjson", "nonlist"}
        THEN _similarity_fallback(search_results, floor)
    ELSE
        LET parsed == KeepIndices(response.items, Len(search_results), <<>>)
            filtered_results == [k \in 1..Len(parsed.keep) |-> search_results[parsed.keep[k]]]
        IN IF ~parsed.ok THEN _similarity_fallback(search_results, floor)
           ELSE IF filtered_results = <<>> THEN _similarity_fallback(search_results, floor)
           ELSE SelectSeq(filtered_results,
                          LAMBDA r : r.similarity_score >= FilterThreshold(floor))

\* RelevanceFilter.filter once the completion call has returned or raised
FilterOutcome(search_results, floor, response) ==
    IF response.kind = "raise" THEN _similarity_fallback(search_results, floor)
    ELSE IF response.kind = "empty" THEN _similarity_fallback(search_results, floor)
    ELSE IF response.kind \in {"nonjson", "nonlist"}
        THEN _similarity_fallback(search_results, floor)
    ELSE
        LET parsed == KeepIndices(response.items, Len(search_results), <<>>)
            filtered_results == [k \in 1..Len(parsed.keep) |-> search_results[parsed.keep[k]]]
            above == SelectSeq(filtered_results,
                               LAMBDA r : r.similarity_score >= FilterThreshold(floor))
        IN IF ~parsed.ok THEN _similarity_fallback(search_results, floor)
           ELSE IF filtered_results = <<>> THEN _similarity_fallback(search_results, floor)
           ELSE IF above = <<>> THEN _similarity_fallback(search_results, floor)
           ELSE above

\* the similarities of the candidates and the configured floors
CandSims == {0, 5, 80}
Floors == {-10, 5, 90}

\* the elements a JSON array can hold: integers, true and false, and
\* anything else (a float, a string, null, a nested value)
JsonItems(n) ==
    {[t |-> "int", v |-> i] : i \in 0..(n + 1)}
        \cup {[t |-> "bool", v |-> 1], [t |-> "bool", v |-> 0], [t |-> "other", v |-> 0]}

\* what the completion call can do: raise, or return empty text, text that
\* is no JSON, a JSON value that is no array, or a JSON array
Responses(n) ==
    {[kind |-> k, items |-> <<>>] : k \in {"raise", "empty", "nonjson", "nonlist"}}
        \cup {[kind |-> "list", items |-> it] : it \in SeqsUpTo(JsonItems(n), MaxItems)}

NoResponse == [kind |-> "none", items |-> <<>>]

FilterOff ==
    /\ f_search_results = <<>>
    /\ f_floor = 0
    /\ f_response = NoResponse
    /\ f_calls = 0
    /\ f_out = <<>>
    /\ f_pc = "off"

FilterInit ==
    /\ \E sims \in SeqsUpTo(CandSims, MaxCands) :
           f_search_results = [k \in 1..Len(sims) |-> [id |-> k, similarity_score |-> sims[k]]]
    /\ f_floor \in Floors
    /\ f_response = NoResponse
    /\ f_calls = 0
    /\ f_out = <<>>
    /\ f_pc = "start"

\* filter with no candidates: [] is returned and no call is made
FilterNoCandidates ==
    /\ f_pc = "start"
    /\ f_search_results = <<>>
    /\ f_out' = <<>>
    /\ f_pc' = "done"
    /\ UNCHANGED <<f_search_results, f_floor, f_response, f_calls>>

\* the completion call of the relevance model
RelevanceCall ==
    /\ f_pc = "start"
    /\ f_search_results # <<>>
    /\ f_response' \in Responses(Len(f_search_results))
    /\ f_calls' = f_calls + 1
    /\ f_pc' = "called"
    /\ UNCHANGED <<f_search_results, f_floor, f_out>>

\* the rest of filter: the response parsed, the floor applied, the fallback
FilterFinish ==
    /\ f_pc = "called"
    /\ f_out' = FilterOutcome(f_search_results, f_floor, f_response)
    /\ f_pc' = "done"
    /\ UNCHANGED <<f_search_results, f_floor, f_response, f_calls>>

\* -------------------------------------------------- claims: relevance filter

\* C1: for a non-empty candidate list, whatever the relevance call does,
\* filter returns a non-empty list of passages of the candidate list.
C1_FilterNeverEmpty ==
    (f_pc = "done" /\ f_search_results # <<>>) =>
        /\ f_out # <<>>
        /\ \A k \in 1..Len(f_out) : f_out[k] \in Range(f_search_results)

\* C1's case: the model answers [] and no candidate meets the floor, and
\* filter still returns passages
C1_Witness ==
    /\ f_pc = "done"
    /\ Len(f_search_results) >= 2
    /\ f_response.kind = "list" /\ f_response.items = <<>>
    /\ \A k \in 1..Len(f_search_results) :
           f_search_results[k].similarity_score < FilterThreshold(f_floor)
    /\ f_out # <<>>

\* the response is no JSON array of in-range integers, or the call failed
Malformed(response, n) ==
    \/ response.kind \in {"raise", "empty", "nonjson", "nonlist"}
    \/ /\ response.kind = "list"
       /\ \E k \in 1..Len(response.items) :
              \/ response.items[k].t # "int"
              \/ response.items[k].v < 1
              \/ response.items[k].v > n

\* the passages the response selects all lie under the similarity floor
AcceptedEmptyAfterFloor(search_results, floor, response) ==
    /\ response.kind = "list"
    /\ \A k \in 1..Len(response.items) :
           /\ response.items[k].t = "int"
           /\ response.items[k].v \in 1..Len(search_results)
           /\ search_results[response.items[k].v].similarity_score < FilterThreshold(floor)

\* C10: a response that is no JSON array of in-range integers, a failed
\* call, or an accepted set emptied by the floor all make filter return the
\* similarity fallback over the full candidate list.
C10_MalformedResponseFallsBack ==
    (/\ f_pc = "done"
     /\ f_search_results # <<>>
     /\ \/ Malformed(f_response, Len(f_search_results))
        \/ AcceptedEmptyAfterFloor(f_search_results, f_floor, f_response))
        => f_out = _similarity_fallback(f_search_results, f_floor)

\* the response is a JSON array of integers within 1..n
ValidIndexResponse(response, n) ==
    /\ response.kind = "list"
    /\ \A k \in 1..Len(response.items) :
           response.items[k].t = "int" /\ response.items[k].v \in 1..n

\* the numbers of the passages a valid response selects
SelectedIndices(response) == {response.items[k].v : k \in 1..Len(response.items)}

\* C18: for a valid JSON array of in-range indices, filter returns the
\* selected passages that meet the similarity floor, each once, in their
\* order in the candidate list whatever the order of the indices in the
\* response: a subsequence of the candidate list.
C18_CandidateOrderKept ==
    (/\ f_pc = "done"
     /\ ValidIndexResponse(f_response, Len(f_search_results))
     /\ \E i \in SelectedIndices(f_response) :
            f_search_results[i].similarity_score >= FilterThreshold(f_floor))
        => f_out = SelectSeq(f_search_results,
                             LAMBDA r : /\ r.id \in SelectedIndices(f_response)
                                        /\ r.similarity_score >= FilterThreshold(f_floor))

\* filter ended in the similarity fallback because the call failed or its
\* answer was no JSON array
FellBack ==
    /\ f_pc = "done"
    /\ f_search_results # <<>>
    /\ f_response.kind \in {"raise", "empty", "nonjson", "nonlist"}

\* the candidates at or above the floor
Qualifying ==
    {k \in 1..Len(f_search_results) :
        f_search_results[k].similarity_score >= FilterThreshold(f_floor)}

\* out is sorted by similarity descending and made of distinct candidates
SortedCandidates(out) ==
    /\ \A k \in 1..Len(out) : out[k] \in Range(f_search_results)
    /\ \A i, j \in 1..Len(out) : i < j =>
           (out[i].similarity_score >= out[j].similarity_score /\ out[i] # out[j])

\* C19: the fallback returns the candidates sorted by similarity
\* descending, all those at or above the floor however many, and the top
\* min(3, n) only when none meets the floor.
C19_FallbackKeepsQualifying ==
    FellBack =>
        /\ SortedCandidates(f_out)
        /\ Qualifying # {} => {f_out[k].id : k \in 1..Len(f_out)} = Qualifying
        /\ Qualifying = {} => Len(f_out) = Min(3, Len(f_search_results))

\* ------------------------------------------- truncate_context_if_needed

\* encoding.encode(CONTEXT_TRUNCATION_NOTICE): notice_len tokens, none of
\* them a token of the context
NoticeTokens(notice_len) == [k \in 1..notice_len |-> 0]

\* a faulty variant: the notice is appended to token_limit tokens of context
truncate_context_notice_not_counted(context, token_limit, notice_len) ==
    IF token_limit <= 0 \/ Len(context) <= token_limit
        THEN [text |-> context, truncated |-> FALSE, token_count |-> Len(context)]
        ELSE [text |-> Take(context, token_limit) \o NoticeTokens(notice_len),
              truncated |-> TRUE,
              token_count |-> token_limit]

\* a faulty variant: the notice is left out only when it is longer than the
\* limit
truncate_context_notice_at_limit(context, token_limit, notice_len) ==
    IF token_limit <= 0 \/ Len(context) <= token_limit
        THEN [text |-> context, truncated |-> FALSE, token_count |-> Len(context)]
    ELSE IF notice_len > token_limit
        THEN [text |-> Take(context, token_limit), truncated |-> TRUE,
              token_count |-> token_limit]
    ELSE [text |-> Take(context, token_limit - notice_len) \o NoticeTokens(notice_len),
          truncated |-> TRUE, token_count |-> token_limit]

\* (text, truncated, token count) for a context given as its tokens
truncate_context_if_needed(context, token_limit, notice_len) ==
    LET tokens == context
        token_count == Len(tokens)
    IN IF token_limit <= 0
           THEN [text |-> context, truncated |-> FALSE, token_count |-> token_count]
       ELSE IF token_count <= token_limit
           THEN [text |-> context, truncated |-> FALSE, token_count |-> token_count]
       ELSE IF notice_len >= token_limit
           THEN LET truncated_tokens == Take(tokens, token_limit)
                IN [text |-> truncated_tokens, truncated |-> TRUE,
                    token_count |-> Len(truncated_tokens)]
       ELSE LET effective_limit == Max(0, token_limit - notice_len)
                truncated_tokens == Take(tokens, effective_limit)
            IN [text |-> truncated_tokens \o NoticeTokens(notice_len),
                truncated |-> TRUE,
                token_count |-> Len(truncated_tokens) + notice_len]

NoTruncation == [text |-> <<>>, truncated |-> FALSE, token_count |-> 0]

TruncOff ==
    /\ t_context = <<>>
    /\ t_token_limit = 0
    /\ t_notice_len = 0
    /\ t_out = NoTruncation
    /\ t_pc = "off"

TruncInit ==
    /\ \E n \in 0..MaxContextTokens : t_context = [k \in 1..n |-> k]
    /\ t_token_limit \in -1..MaxTokenLimit
    /\ t_notice_len \in 1..MaxNoticeTokens
    /\ t_out = NoTruncation
    /\ t_pc = "call"

CallTruncate ==
    /\ t_pc = "call"
    /\ t_out' = truncate_context_if_needed(t_context, t_token_limit, t_notice_len)
    /\ t_pc' = "done"
    /\ UNCHANGED <<t_context, t_token_limit, t_notice_len>>

\* ------------------------------------------------ claims: context assembler

\* C2 as claimed: for every budget >= 0 the returned text has at most
\* budget tokens, and a context within the budget is returned unchanged
\* with truncated = false.
C2_Original ==
    (t_pc = "done" /\ t_token_limit >= 0) =>
        /\ Len(t_out.text) <= t_token_limit
        /\ Len(t_context) <= t_token_limit
               => (t_out.text = t_context /\ ~t_out.truncated)

\* C2 amended: for every budget > 0 the returned text has at most budget
\* tokens; a context within the budget, and any context when the budget is
\* <= 0 (no limit), is returned unchanged with truncated = false.
C2_TokenBudget ==
    t_pc = "done" =>
        /\ t_token_limit > 0 => Len(t_out.text) <= t_token_limit
        /\ (Len(t_context) <= t_token_limit \/ t_token_limit <= 0)
               => (t_out.text = t_context /\ ~t_out.truncated)

\* C2's case: a context over a positive budget that has room for the
\* notice comes back cut to the budget
C2_Witness ==
    /\ t_pc = "done"
    /\ t_token_limit > t_notice_len
    /\ Len(t_context) > t_token_limit
    /\ t_out.truncated
    /\ Len(t_out.text) = t_token_limit

\* the context has more tokens than a positive budget
OverBudget == t_pc = "done" /\ t_token_limit > 0 /\ Len(t_context) > t_token_limit

\* C11 as claimed: a context over a positive budget comes back truncated
\* with at most budget tokens; a notice no longer than the budget (equal
\* length included) follows the first budget - notice length tokens, and
\* only a notice longer than the budget is left out.
C11_Original ==
    OverBudget =>
        /\ t_out.truncated
        /\ Len(t_out.text) <= t_token_limit
        /\ t_notice_len <= t_token_limit
               => t_out.text = Take(t_context, t_token_limit - t_notice_len)
                                   \o NoticeTokens(t_notice_len)
        /\ t_notice_len > t_token_limit => t_out.text = Take(t_context, t_token_limit)

\* C11 amended: a context over a positive budget comes back truncated with
\* at most budget tokens; a notice shorter than the budget follows the first
\* budget - notice length tokens; a notice as long as the budget or longer
\* is left out and the text is the first budget tokens.
C11_MarkerPlacement ==
    OverBudget =>
        /\ t_out.truncated
        /\ Len(t_out.text) <= t_token_limit
        /\ t_out.token_count = Len(t_out.text)
        /\ t_notice_len < t_token_limit
               => t_out.text = Take(t_context, t_token_limit - t_notice_len)
                                   \o NoticeTokens(t_notice_len)
        /\ t_notice_len >= t_token_limit => t_out.text = Take(t_context, t_token_limit)

\* C11's case: the notice is exactly as long as the budget and the context
\* is longer; the text is the first budget tokens, without the notice
C11_Witness ==
    /\ OverBudget
    /\ t_notice_len = t_token_limit
    /\ t_out.truncated
    /\ t_out.text = Take(t_context, t_token_limit)
    /\ t_out.text # NoticeTokens(t_notice_len)

\* ---------------------------------------------------- ResponseGenerator

\* the generation models tried
Models == {"gpt-5", "gpt-5-mini", "gpt-4o"}

\* model.startswith("gpt-5")
IsGpt5(model) == model \in {"gpt-5", "gpt-5-mini"}

\* _fallback_generation's fallback_model
fallback_model == "gpt-4o"

\* what a completion call can do: raise, or return a stripped content that
\* is empty, an answer, or an answer with a "## Citations" section of the
\* model's own
CompletionOutcomes == {"raise", "empty", "answer", "answer_cited", "answer_knowledge"}

\* the first line of _fallback_generation: a model outside gpt-5* gets its
\* error back
FallbackRefused(original_model) == ~IsGpt5(original_model)

\* a faulty variant: the retry on an empty answer looks at the requested model,
\* not at the model that produced the answer
NeedsEmptyRetry_requested_model(answer_text, generation_model, model) ==
    answer_text = "empty" /\ IsGpt5(model)

\* generate's test before its second use of _fallback_generation
NeedsEmptyRetry(answer_text, generation_model, model) ==
    answer_text = "empty" /\ IsGpt5(generation_model)

\* the answer of a completion as the lines normalize_answer_markdown leaves:
\* a body, a body with a citations section of the model's own, a body
\* that mentions model knowledge and is followed by such a section
AnswerLines(answer_text) ==
    IF answer_text = "answer" THEN <<"body">>
    ELSE IF answer_text = "answer_cited"
        THEN <<"body", "## Citations", "cited by the model">>
    ELSE IF answer_text = "answer_knowledge"
        THEN <<"## Model Knowledge", "body", "## Citations", "cited by the model">>
    ELSE <<>>

\* format_source_label for the sources of references 1, 2, ...
SourceLabels == <<"- [1]", "- [2]", "- [3]", "- [4]">>

\* what the text (or section title) of a source can hold: a passage with
\* nothing special, the words "model knowledge", a backslash before a
\* letter that is no escape of a replacement template ("C:\docs"), the
\* group reference "\g<0>"
SourceTexts == {"passage", "model knowledge", "bad escape", "group reference"}

\* the sources lists handed to generate
SourceLists == SeqsUpTo(SourceTexts, MaxSources)

\* citation_lines of annotate_answer_with_sources: one entry per source,
\* its label first (the text of the source follows on the same entry)
CitationLines(sources) == [k \in 1..Len(sources) |-> SourceLabels[k]]

\* the guard of the note on model knowledge: the answer has the words
\* "model knowledge" and citation_lines, the texts included, has not
NeedsModelKnowledgeNote(answer, sources) ==
    /\ \E k \in 1..Len(answer) : answer[k] = "## Model Knowledge"
    /\ \A k \in 1..Len(sources) : sources[k] # "model knowledge"

\* the index of the first line "## Citations", 0 when there is none
FirstCitations(answer) ==
    IF \E k \in 1..Len(answer) : answer[k] = "## Citations"
        THEN CHOOSE k \in 1..Len(answer) :
                 /\ answer[k] = "## Citations"
                 /\ \A j \in 1..(k - 1) : answer[j] # "## Citations"
        ELSE 0

\* re.sub reads citations_block as a replacement template: a backslash
\* before a letter that is no escape is an error of the template
TemplateError(sources) == \E k \in 1..Len(sources) : sources[k] = "bad escape"

\* the citation lines as re.sub expands them from entry k on: "\g<0>" in
\* the text of a source becomes the text the pattern matched
RECURSIVE TemplateLines(_, _, _)
TemplateLines(sources, matched, k) ==
    IF k > Len(sources) THEN <<>>
    ELSE <<SourceLabels[k]>>
             \o (IF sources[k] = "group reference" THEN matched ELSE <<>>)
             \o TemplateLines(sources, matched, k + 1)

\* annotate_answer_with_sources over the lines of the answer and the
\* sources: the answer it returns, or the error that leaves it
annotate_answer_with_sources(answer, sources) ==
    IF answer = <<>> \/ sources = <<>> THEN [error |-> "none", answer |-> answer]
    ELSE
        LET note == IF NeedsModelKnowledgeNote(answer, sources)
                        THEN <<"- Model knowledge">> ELSE <<>>
            at == FirstCitations(answer)
        IN IF at > 0
               THEN IF TemplateError(sources)
                        THEN [error |-> "re.error", answer |-> <<>>]
                        ELSE [error |-> "none",
                              answer |-> SubSeq(answer, 1, at - 1) \o <<"## Citations">>
                                             \o TemplateLines(sources,
                                                    SubSeq(answer, at, Len(answer)), 1)
                                             \o note]
               ELSE [error |-> "none",
                     answer |-> answer \o <<"## Citations">> \o CitationLines(sources)
                                    \o note]

NoResult == [kind |-> "none", answer |-> <<>>, model |-> "none"]

GenOff ==
    /\ g_model = "none"
    /\ g_sources = <<>>
    /\ g_calls = <<>>
    /\ g_primary = "none"
    /\ g_generation_model = "none"
    /\ g_answer_text = "none"
    /\ g_result = NoResult
    /\ g_pc = "off"

GenInit ==
    /\ g_model \in Models
    /\ g_sources \in SourceLists
    /\ g_calls = <<>>
    /\ g_primary = "none"
    /\ g_generation_model = "none"
    /\ g_answer_text = "none"
    /\ g_result = NoResult
    /\ g_pc = "start"

\* generate: the completion call to the requested model
GenPrimaryCall ==
    /\ g_pc = "start"
    /\ g_calls' = Append(g_calls, [role |-> "primary", model |-> g_model])
    /\ \E outcome \in CompletionOutcomes :
           /\ g_primary' = outcome
           /\ IF outcome = "raise"
                  THEN /\ g_pc' = "primary_raised"
                       /\ UNCHANGED <<g_generation_model, g_answer_text>>
                  ELSE /\ g_generation_model' = g_model
                       /\ g_answer_text' = outcome
                       /\ g_pc' = "answered"
    /\ UNCHANGED <<g_model, g_sources, g_result>>

\* _fallback_generation for a model outside gpt-5*: the error is raised
\* again and leaves generate
GenReraise ==
    /\ g_pc \in {"primary_raised", "primary_empty"}
    /\ FallbackRefused(g_model)
    /\ g_result' = [kind |-> "raised", answer |-> <<>>, model |-> "none"]
    /\ g_pc' = "done"
    /\ UNCHANGED <<g_model, g_sources, g_calls, g_primary, g_generation_model,
                   g_answer_text>>

\* _fallback_generation for a gpt-5* model: one completion call to the
\* fallback model; an error of that call leaves generate
GenFallbackCall ==
    /\ g_pc \in {"primary_raised", "primary_empty"}
    /\ ~FallbackRefused(g_model)
    /\ g_calls' = Append(g_calls, [role |-> "fallback", model |-> fallback_model])
    /\ \E outcome \in CompletionOutcomes :
           IF outcome = "raise"
               THEN /\ g_result' = [kind |-> "raised", answer |-> <<>>,
                                    model |-> "none"]
                    /\ g_pc' = "done"
                    /\ UNCHANGED <<g_generation_model, g_answer_text>>
               ELSE /\ g_generation_model' = fallback_model
                    /\ g_answer_text' = outcome
                    /\ g_pc' = IF g_pc = "primary_raised" THEN "answered" ELSE "final"
                    /\ UNCHANGED g_result
    /\ UNCHANGED <<g_model, g_sources, g_primary>>

\* generate: an empty answer of a gpt-5* model goes to the fallback
GenCheckAnswer ==
    /\ g_pc = "answered"
    /\ g_pc' = IF NeedsEmptyRetry(g_answer_text, g_generation_model, g_model)
                   THEN "primary_empty" ELSE "final"
    /\ UNCHANGED <<g_model, g_sources, g_calls, g_primary, g_generation_model,
                   g_answer_text, g_result>>

\* generate: an answer still empty is an error, any other answer is
\* normalized, annotated and returned with the model that produced it; an
\* error of the annotation leaves generate
GenFinish ==
    /\ g_pc = "final"
    /\ LET annotated == annotate_answer_with_sources(AnswerLines(g_answer_text),
                                                     g_sources)
       IN g_result' =
              IF g_answer_text = "empty" \/ annotated.error # "none"
                  THEN [kind |-> "raised", answer |-> <<>>, model |-> "none"]
                  ELSE [kind |-> "returned", answer |-> annotated.answer,
                        model |-> g_generation_model]
    /\ g_pc' = "done"
    /\ UNCHANGED <<g_model, g_sources, g_calls, g_primary, g_generation_model,
                   g_answer_text>>

\* ----------------------------------------------- claims: response generator

FallbackCalls == {k \in 1..Len(g_calls) : g_calls[k].role = "fallback"}

\* C5: generate makes at most two completion calls; the fallback model is
\* called at most once, and only for a gpt-5* model whose call raised or
\* returned an empty answer; the error of any other model is raised with no
\* retry; an answer still empty after the fallback is an error, and no
\* empty answer is returned.
C5_SingleFallbackRetry ==
    /\ Len(g_calls) <= 2
    /\ Cardinality(FallbackCalls) <= 1
    /\ FallbackCalls # {} => (IsGpt5(g_model) /\ g_primary \in {"raise", "empty"})
    /\ (g_pc = "done" /\ ~IsGpt5(g_model) /\ g_primary = "raise")
           => (g_result.kind = "raised" /\ Len(g_calls) = 1)
    /\ (g_pc = "done" /\ g_answer_text = "empty") => g_result.kind = "raised"
    /\ g_result.kind = "returned" => g_answer_text \notin {"none", "raise", "empty"}

\* C5's case: the gpt-5* call raised, the fallback answered with nothing,
\* and generate ended in an error after two calls
C5_Witness ==
    /\ g_pc = "done"
    /\ IsGpt5(g_model)
    /\ g_primary = "raise"
    /\ Len(g_calls) = 2
    /\ g_answer_text = "empty"
    /\ g_result.kind = "raised"

\* ------------------------------------- RetrievalEngine: embedding cache

\* the cache key: (model, "query: " + text.strip())
cache_key(text, model) == [model |-> model, query_text |-> <<"query: ">> \o Strip(text)]

\* the position of key in the OrderedDict, 0 when it is absent
RECURSIVE PositionOf(_, _, _)
PositionOf(cache, key, k) ==
    IF k > Len(cache) THEN 0
    ELSE IF cache[k].key = key THEN k
    ELSE PositionOf(cache, key, k + 1)

\* OrderedDict.get(key): the embedding stored under key, "None" without
CacheGet(cache, key) ==
    IF PositionOf(cache, key, 1) = 0 THEN "None"
    ELSE cache[PositionOf(cache, key, 1)].embedding

\* OrderedDict.move_to_end(key) for a key that is present
move_to_end(cache, key) ==
    SelectSeq(cache, LAMBDA e : e.key # key) \o <<cache[PositionOf(cache, key, 1)]>>

\* cache[key] = embedding: a present key keeps its place, a new one goes
\* to the end
SetItem(cache, key, embedding) ==
    IF PositionOf(cache, key, 1) = 0
        THEN Append(cache, [key |-> key, embedding |-> embedding])
        ELSE [cache EXCEPT ![PositionOf(cache, key, 1)].embedding = embedding]

\* OrderedDict.popitem(last=False) on a cache that is not empty
popitem_first(cache) == Tail(cache)

\* max(0, int(embedding_cache_size)) if embedding_cache_size else 0
embedding_cache_size(configured) == IF configured # 0 THEN Max(0, configured) ELSE 0

\* a faulty variant: a hit leaves the entry where it is
get_query_embedding_no_promote(cache, capacity, text, model, service) ==
    LET key == cache_key(text, model)
        inserted == move_to_end(SetItem(cache, key, service), key)
    IN IF capacity # 0 /\ CacheGet(cache, key) # "None"
           THEN [cache |-> cache, result |-> CacheGet(cache, key),
                 service_called |-> FALSE, evicted |-> <<>>]
       ELSE IF service = "raise"
           THEN [cache |-> cache, result |-> "None", service_called |-> TRUE,
                 evicted |-> <<>>]
       ELSE IF capacity = 0
           THEN [cache |-> cache, result |-> service, service_called |-> TRUE,
                 evicted |-> <<>>]
       ELSE IF Len(inserted) > capacity
           THEN [cache |-> popitem_first(inserted), result |-> service,
                 service_called |-> TRUE, evicted |-> <<Head(inserted).key>>]
       ELSE [cache |-> inserted, result |-> service, service_called |-> TRUE,
             evicted |-> <<>>]

\* a faulty variant: an embedding is stored although the service raised
get_query_embedding_caches_failure(cache, capacity, text, model, service) ==
    LET key == cache_key(text, model)
        stored == IF service = "raise" THEN "v1" ELSE service
        inserted == move_to_end(SetItem(cache, key, stored), key)
    IN IF capacity # 0 /\ CacheGet(cache, key) # "None"
           THEN [cache |-> move_to_end(cache, key), result |-> CacheGet(cache, key),
                 service_called |-> FALSE, evicted |-> <<>>]
       ELSE IF capacity = 0
           THEN [cache |-> cache, result |-> IF service = "raise" THEN "None" ELSE service,
                 service_called |-> TRUE, evicted |-> <<>>]
       ELSE IF Len(inserted) > capacity
           THEN [cache |-> popitem_first(inserted),
                 result |-> IF service = "raise" THEN "None" ELSE service,
                 service_called |-> TRUE, evicted |-> <<Head(inserted).key>>]
       ELSE [cache |-> inserted,
             result |-> IF service = "raise" THEN "None" ELSE service,
             service_called |-> TRUE, evicted |-> <<>>]

\* a faulty variant: on overflow the most recently used entry but the new one
\* is evicted
get_query_embedding_evicts_newest(cache, capacity, text, model, service) ==
    LET key == cache_key(text, model)
        inserted == move_to_end(SetItem(cache, key, service), key)
    IN IF capacity # 0 /\ CacheGet(cache, key) # "None"
           THEN [cache |-> move_to_end(cache, key), result |-> CacheGet(cache, key),
                 service_called |-> FALSE, evicted |-> <<>>]
       ELSE IF service = "raise"
           THEN [cache |-> cache, result |-> "None", service_called |-> TRUE,
                 evicted |-> <<>>]
       ELSE IF capacity = 0
           THEN [cache |-> cache, result |-> service, service_called |-> TRUE,
                 evicted |-> <<>>]
       ELSE IF Len(inserted) > capacity
           THEN [cache |-> SubSeq(inserted, 1, Len(inserted) - 2)
                               \o <<inserted[Len(inserted)]>>,
                 result |-> service, service_called |-> TRUE,
                 evicted |-> <<inserted[Len(inserted) - 1].key>>]
       ELSE [cache |-> inserted, result |-> service, service_called |-> TRUE,
             evicted |-> <<>>]

\* get_query_embedding run from start to end: service is what
\* embeddings.create does if it is called, "raise" or the embedding it
\* returns. The result is the embedding returned ("None" after an error),
\* the cache afterwards, whether the service was called and the key evicted
get_query_embedding(cache, capacity, text, model, service) ==
    LET key == cache_key(text, model)
        cached_embedding == CacheGet(cache, key)
        inserted == move_to_end(SetItem(cache, key, service), key)
    IN IF capacity # 0 /\ cached_embedding # "None"
           THEN [cache |-> move_to_end(cache, key), result |-> cached_embedding,
                 service_called |-> FALSE, evicted |-> <<>>]
       ELSE IF service = "raise"
           THEN [cache |-> cache, result |-> "None", service_called |-> TRUE,
                 evicted |-> <<>>]
       ELSE IF capacity = 0
           THEN [cache |-> cache, result |-> service, service_called |-> TRUE,
                 evicted |-> <<>>]
       ELSE IF Len(inserted) > capacity
           THEN [cache |-> popitem_first(inserted), result |-> service,
                 service_called |-> TRUE, evicted |-> <<Head(inserted).key>>]
       ELSE [cache |-> inserted, result |-> service, service_called |-> TRUE,
             evicted |-> <<>>]

\* the query texts, the embedding models and the embeddings of the service
CacheTexts == {<<"a">>, <<" ", "a", " ">>, <<"b">>}
CacheModels == {"m1", "m2"}
Embeddings == {"v1", "v2"}

NoCall ==
    [text |-> <<>>, model |-> "none", result |-> "none", service |-> "none",
     service_called |-> FALSE, evicted |-> <<>>, before |-> <<>>, used_before |-> {}]

CacheOff ==
    /\ c_capacity = 0
    /\ c_cache = <<>>
    /\ c_used = {}
    /\ c_clock = 0
    /\ c_service_calls = 0
    /\ c_last = NoCall
    /\ c_threads = <<>>

\* a new RetrievalEngine: the cache is empty
CacheInit ==
    /\ c_capacity \in {embedding_cache_size(n) : n \in -1..MaxCapacity}
    /\ c_cache = <<>>
    /\ c_used = {}
    /\ c_clock = 0
    /\ c_service_calls = 0
    /\ c_last = NoCall
    /\ c_threads = <<>>

\* when each cached key was last inserted or hit, after a call at time now
UsedAfter(used, call, key, now) ==
    IF call.result = "None" \/ c_capacity = 0 THEN used
    ELSE {u \in used : u.key # key /\ <<u.key>> # call.evicted}
             \cup {[key |-> key, at |-> now]}

\* one call of get_query_embedding, from start to end
CallGetQueryEmbedding ==
    /\ c_clock < MaxCacheCalls
    /\ \E text \in CacheTexts, model \in CacheModels, service \in Embeddings \cup {"raise"} :
        LET call == get_query_embedding(c_cache, c_capacity, text, model, service)
        IN /\ c_cache' = call.cache
           /\ c_clock' = c_clock + 1
           /\ c_service_calls' = c_service_calls + (IF call.service_called THEN 1 ELSE 0)
           /\ c_used' = UsedAfter(c_used, call, cache_key(text, model), c_clock + 1)
           /\ c_last' = [text |-> text, model |-> model, result |-> call.result,
                         service |-> IF call.service_called THEN service ELSE "none",
                         service_called |-> call.service_called,
                         evicted |-> call.evicted, before |-> c_cache,
                         used_before |-> c_used]
    /\ UNCHANGED <<c_capacity, c_threads>>

\* --------------------------------------------- claims: embedding cache

\* the keys of a cache, least recently used first
CacheKeys(cache) == [k \in 1..Len(cache) |-> cache[k].key]

\* C13: with capacity c >= 1 the cache never holds more than c entries, and
\* an insertion over capacity evicts exactly one entry, the one whose last
\* insertion or hit is the oldest; with capacity 0 the cache stays empty and
\* every call goes to the embedding service.
C13_BoundedLruCache ==
    /\ c_capacity >= 1 => Len(c_cache) <= c_capacity
    /\ c_last.evicted # <<>> =>
           /\ Len(c_last.evicted) = 1
           /\ Len(c_last.before) = c_capacity
           /\ Len(c_cache) = c_capacity
           /\ \E u \in c_last.used_before :
                  /\ u.key = c_last.evicted[1]
                  /\ \A w \in c_last.used_before : w.at >= u.at
           /\ \A k \in 1..Len(c_cache) : c_cache[k].key # c_last.evicted[1]
    /\ (c_last.service_called /\ c_last.result # "None" /\ c_capacity >= 1
            /\ Len(c_last.before) < c_capacity) => c_last.evicted = <<>>
    /\ c_capacity = 0 => (c_cache = <<>> /\ c_service_calls = c_clock)

\* C13's case: two keys were inserted, the first was hit again, and a third
\* key then evicted the second, whose last use was the oldest
C13_Witness ==
    /\ c_capacity = 2
    /\ c_clock = 4
    /\ c_service_calls = 3
    /\ c_last.evicted # <<>>
    /\ c_last.evicted[1] = c_last.before[1].key
    /\ \E u, w \in c_last.used_before :
           /\ u.key = c_last.before[1].key /\ u.at = 2
           /\ w.key = c_last.before[2].key /\ w.at = 3

\* the key of the last call
LastKey == cache_key(c_last.text, c_last.model)

\* the last call found its key in the cache
LastCallHit ==
    /\ c_last.result # "none"
    /\ \E k \in 1..Len(c_last.before) : c_last.before[k].key = LastKey

\* C14: a call whose key (model, "query: " + stripped text) is in the cache
\* returns the cached vector, does not call the embedding service and makes
\* the key the most recently used; the set of cached keys does not change.
C14_HitPromotes ==
    LastCallHit =>
        /\ ~c_last.service_called
        /\ \E k \in 1..Len(c_last.before) :
               /\ c_last.before[k].key = LastKey
               /\ c_last.result = c_last.before[k].embedding
        /\ c_cache # <<>>
        /\ c_cache[Len(c_cache)].key = LastKey
        /\ Range(c_cache) = Range(c_last.before)
        /\ SelectSeq(c_cache, LAMBDA e : e.key # LastKey)
               = SelectSeq(c_last.before, LAMBDA e : e.key # LastKey)

\* C14's case: text "a" was cached first, another key after it, and a call
\* with " a " hit the first entry and moved it behind the other
C14_Witness ==
    /\ LastCallHit
    /\ c_last.text = <<" ", "a", " ">>
    /\ Len(c_last.before) = 2
    /\ c_last.before[1].key = LastKey
    /\ c_cache[2].key = LastKey
    /\ c_cache[1] = c_last.before[2]
    /\ c_last.result = c_last.before[1].embedding

\* get_query_embedding called from several threads: each call is a
\* sequence of steps on the shared OrderedDict, and any exception inside the
\* try block ends the call with None

IdleThread == [pc |-> "idle", key |-> cache_key(<<>>, "none"), embedding |-> "none",
               result |-> "none"]

\* a cache left by earlier calls, and MaxThreads calls about to start
CacheConcurrentInit ==
    /\ c_capacity \in 0..MaxCapacity
    /\ \E keys \in SeqsUpTo({cache_key(t, mo) : t \in CacheTexts, mo \in CacheModels},
                              c_capacity) :
           /\ \A i, j \in 1..Len(keys) : i # j => keys[i] # keys[j]
           /\ c_cache = [k \in 1..Len(keys) |-> [key |-> keys[k], embedding |-> "v1"]]
    /\ c_used = {}
    /\ c_clock = 0
    /\ c_service_calls = 0
    /\ c_last = NoCall
    /\ c_threads = [t \in 1..MaxThreads |-> IdleThread]

ThreadFrame == <<c_capacity, c_used, c_clock, c_last>>

\* a call enters get_query_embedding and builds its key
ThreadBegin ==
    /\ \E t \in 1..Len(c_threads), text \in CacheTexts, model \in CacheModels :
           /\ c_threads[t].pc = "idle"
           /\ c_threads' = [c_threads EXCEPT ![t].pc = "lookup",
                                             ![t].key = cache_key(text, model)]
    /\ UNCHANGED <<ThreadFrame, c_cache, c_service_calls>>

\* self._embedding_cache.get(cache_key), skipped when the size is 0
ThreadLookup ==
    /\ \E t \in 1..Len(c_threads) :
           /\ c_threads[t].pc = "lookup"
           /\ LET cached_embedding == CacheGet(c_cache, c_threads[t].key)
              IN c_threads' =
                     IF c_capacity # 0 /\ cached_embedding # "None"
                         THEN [c_threads EXCEPT ![t].pc = "promote",
                                                ![t].embedding = cached_embedding]
                         ELSE [c_threads EXCEPT ![t].pc = "service"]
    /\ UNCHANGED <<ThreadFrame, c_cache, c_service_calls>>

\* move_to_end after a hit: KeyError when the key is gone by now, which the
\* except branch turns into None
ThreadPromote ==
    /\ \E t \in 1..Len(c_threads) :
           /\ c_threads[t].pc = "promote"
           /\ IF PositionOf(c_cache, c_threads[t].key, 1) = 0
                  THEN /\ c_threads' = [c_threads EXCEPT ![t].pc = "done",
                                                         ![t].result = "None"]
                       /\ UNCHANGED c_cache
                  ELSE /\ c_cache' = move_to_end(c_cache, c_threads[t].key)
                       /\ c_threads' = [c_threads EXCEPT ![t].pc = "done",
                                                         ![t].result = c_threads[t].embedding]
    /\ UNCHANGED <<ThreadFrame, c_service_calls>>

\* embeddings.create, which here always answers
ThreadService ==
    /\ \E t \in 1..Len(c_threads), embedding \in Embeddings :
           /\ c_threads[t].pc = "service"
           /\ c_threads' =
                  IF c_capacity # 0
                      THEN [c_threads EXCEPT ![t].pc = "insert", ![t].embedding = embedding]
                      ELSE [c_threads EXCEPT ![t].pc = "done", ![t].embedding = embedding,
                                             ![t].result = embedding]
    /\ c_service_calls' = c_service_calls + 1
    /\ UNCHANGED <<ThreadFrame, c_cache>>

\* self._embedding_cache[cache_key] = embedding
ThreadInsert ==
    /\ \E t \in 1..Len(c_threads) :
           /\ c_threads[t].pc = "insert"
           /\ c_cache' = SetItem(c_cache, c_threads[t].key, c_threads[t].embedding)
           /\ c_threads' = [c_threads EXCEPT ![t].pc = "move"]
    /\ UNCHANGED <<ThreadFrame, c_service_calls>>

\* move_to_end after the insertion: KeyError when the key was evicted in
\* between
ThreadMoveToEnd ==
    /\ \E t \in 1..Len(c_threads) :
           /\ c_threads[t].pc = "move"
           /\ IF PositionOf(c_cache, c_threads[t].key, 1) = 0
                  THEN /\ c_threads' = [c_threads EXCEPT ![t].pc = "done",
                                                         ![t].result = "None"]
                       /\ UNCHANGED c_cache
                  ELSE /\ c_cache' = move_to_end(c_cache, c_threads[t].key)
                       /\ c_threads' = [c_threads EXCEPT ![t].pc = "size"]
    /\ UNCHANGED <<ThreadFrame, c_service_calls>>

\* len(self._embedding_cache) > self._embedding_cache_size
ThreadSizeCheck ==
    /\ \E t \in 1..Len(c_threads) :
           /\ c_threads[t].pc = "size"
           /\ c_threads' =
                  IF Len(c_cache) > c_capacity
                      THEN [c_threads EXCEPT ![t].pc = "evict"]
                      ELSE [c_threads EXCEPT ![t].pc = "done",
                                             ![t].result = c_threads[t].embedding]
    /\ UNCHANGED <<ThreadFrame, c_cache, c_service_calls>>

\* popitem(last=False): KeyError on an empty cache
ThreadEvict ==
    /\ \E t \in 1..Len(c_threads) :
           /\ c_threads[t].pc = "evict"
           /\ IF c_cache = <<>>
                  THEN /\ c_threads' = [c_threads EXCEPT ![t].pc = "done",
                                                         ![t].result = "None"]
                       /\ UNCHANGED c_cache
                  ELSE /\ c_cache' = popitem_first(c_cache)
                       /\ c_threads' = [c_threads EXCEPT ![t].pc = "done",
                                                         ![t].result = c_threads[t].embedding]
    /\ UNCHANGED <<ThreadFrame, c_service_calls>>

\* C16: however the steps of two or more calls in flight interleave, with an
\* embedding service that never fails every call returns an embedding, never
\* None and never an error, and once all calls are over the cache holds at
\* most capacity entries.
C16_ConcurrentCallsSafe ==
    /\ \A t \in 1..Len(c_threads) :
           c_threads[t].pc = "done" => c_threads[t].result \in Embeddings
    /\ (c_threads # <<>> /\ \A t \in 1..Len(c_threads) : c_threads[t].pc = "done")
           => Len(c_cache) <= c_capacity

\* ---------------------------------------- RetrievalEngine: query enhancer

\* str.lower() over the characters of the model
LowerChar(c) == IF c = "A" THEN "a" ELSE IF c = "B" THEN "b" ELSE c

Lower(text) == [k \in 1..Len(text) |-> LowerChar(text[k])]

\* sub in text
Contains(sub, text) ==
    \E i \in 0..(Len(text) - Len(sub)) : SubSeq(text, i + 1, i + Len(sub)) = sub

\* self._query_rules as __init__ builds it from config.query_tweaks: the
\* triggers lower-cased, the additions as configured
QueryRules(tweaks) ==
    [k \in 1..Len(tweaks) |->
        [triggers |-> [j \in 1..Len(tweaks[k].triggers) |-> Lower(tweaks[k].triggers[j])],
         additions |-> tweaks[k].additions]]

\* the rule is matched: it has triggers and one of them occurs in the
\* lower-cased query
RuleMatches(rule, query_lower) ==
    /\ rule.triggers # <<>>
    /\ \E j \in 1..Len(rule.triggers) : Contains(rule.triggers[j], query_lower)

\* enhancements after the loop over the rules from index on
RECURSIVE Enhancements(_, _, _)
Enhancements(rules, query_lower, index) ==
    IF index > Len(rules) THEN <<>>
    ELSE (IF RuleMatches(rules[index], query_lower) THEN rules[index].additions
          ELSE <<>>)
             \o Enhancements(rules, query_lower, index + 1)

\* list(dict.fromkeys(items)): the first occurrence of each item, in order
RECURSIVE Unique(_, _)
Unique(items, acc) ==
    IF items = <<>> THEN acc
    ELSE Unique(Tail(items),
                IF \E k \in 1..Len(acc) : acc[k] = Head(items) THEN acc
                ELSE Append(acc, Head(items)))

\* " ".join(words)
RECURSIVE JoinSpace(_)
JoinSpace(words) ==
    IF words = <<>> THEN <<>>
    ELSE IF Len(words) = 1 THEN Head(words)
    ELSE Head(words) \o <<" ">> \o JoinSpace(Tail(words))

\* enhance_query_for_search
enhance_query_for_search(query, rules) ==
    LET enhancements == Enhancements(rules, Lower(query), 1)
    IN IF enhancements # <<>>
           THEN query \o <<" ">> \o JoinSpace(Unique(enhancements, <<>>))
           ELSE query

\* the characters of a query
QueryChars == {"a", "A", "b"}

\* config.query_tweaks: no rules; two rules that share an addition; a rule
\* whose addition holds the trigger of the next; a rule without triggers
\* and one with an upper-case trigger
TweakSets ==
    { <<>>,
      << [triggers |-> << <<"a">> >>, additions |-> << <<"x">>, <<"y">> >>],
         [triggers |-> << <<"b">> >>, additions |-> << <<"y">>, <<"z">> >>] >>,
      << [triggers |-> << <<"a">> >>, additions |-> << <<"b">> >>],
         [triggers |-> << <<"b">> >>, additions |-> << <<"z">> >>] >>,
      << [triggers |-> <<>>, additions |-> << <<"x">> >>],
         [triggers |-> << <<"A", "b">> >>, additions |-> << <<"z">> >>] >> }

EnhanceOff ==
    /\ q_query = <<>>
    /\ q_tweaks = <<>>
    /\ q_once = <<>>
    /\ q_twice = <<>>
    /\ q_pc = "off"

EnhanceInit ==
    /\ q_query \in SeqsUpTo(QueryChars, MaxQueryLen)
    /\ q_tweaks \in TweakSets
    /\ q_once = <<>>
    /\ q_twice = <<>>
    /\ q_pc = "start"

\* enhance_query_for_search on the query
EnhanceQuery ==
    /\ q_pc = "start"
    /\ q_once' = enhance_query_for_search(q_query, QueryRules(q_tweaks))
    /\ q_pc' = "once"
    /\ UNCHANGED <<q_query, q_tweaks, q_twice>>

\* enhance_query_for_search on its own output
EnhanceAgain ==
    /\ q_pc = "once"
    /\ q_twice' = enhance_query_for_search(q_once, QueryRules(q_tweaks))
    /\ q_pc' = "twice"
    /\ UNCHANGED <<q_query, q_tweaks, q_once>>

\* ------------------------------------------------- claims: query enhancer

\* the triggers of the rules that occur in the lower-cased text
MatchedTriggers(text) ==
    LET rules == QueryRules(q_tweaks)
    IN {t \in UNION {Range(rules[k].triggers) : k \in 1..Len(rules)} :
           Contains(t, Lower(text))}

\* the additions of the matched rules, each once, in the order the rules
\* first give them
MatchedAdditions(text) ==
    LET rules == QueryRules(q_tweaks)
        matched == SelectSeq(rules, LAMBDA r :
                       \E j \in 1..Len(r.triggers) : Contains(r.triggers[j], Lower(text)))
        all == [k \in 1..Len(matched) |-> matched[k].additions]
        flat[k \in 0..Len(all)] == IF k = 0 THEN <<>> ELSE flat[k - 1] \o all[k]
        firsts == {i \in 1..Len(flat[Len(all)]) :
                      \A j \in 1..(i - 1) : flat[Len(all)][j] # flat[Len(all)][i]}
    IN SelectSeq([i \in 1..Len(flat[Len(all)]) |-> [at |-> i, word |-> flat[Len(all)][i]]],
                 LAMBDA e : e.at \in firsts)

\* C25: when the additions bring no trigger into the query that was not
\* matched in it already, enhancing the enhanced query gives it back
\* unchanged; and the output always begins with the query and appends each
\* matched addition once, in first-match order.
C25_EnhanceIdempotent ==
    q_pc = "twice" =>
        /\ MatchedTriggers(q_once) = MatchedTriggers(q_query) => q_twice = q_once
        /\ SubSeq(q_once, 1, Len(q_query)) = q_query
        /\ LET additions == MatchedAdditions(q_query)
           IN q_once = IF additions = <<>> THEN q_query
                       ELSE q_query \o <<" ">>
                                \o JoinSpace([k \in 1..Len(additions) |-> additions[k].word])

\* ------------------------------------------------------- RetrievalEngine

\* the metric names _detect_distance_metric can return: the collection's
\* "hnsw:space" lower-cased, "cosine" when it has none
Metrics == {"cosine", "ip", "l2", "euclidean", "manhattan"}

\* a faulty variant: the distance itself is taken as the similarity
_convert_distance_to_similarity_keeps_distance(metric, distance) ==
    IF distance.none THEN 0 ELSE distance.v

\* similarity in hundredths; 1.0 / (1.0 + d) is rounded down to a hundredth
_convert_distance_to_similarity(metric, distance) ==
    IF distance.none THEN 0
    ELSE IF metric \in {"cosine", "ip"} THEN One - distance.v
    ELSE IF metric \in {"l2", "euclidean"}
        THEN (One * One) \div (One + Max(distance.v, 0))
    ELSE One - distance.v

\* _is_content_useful over what it reads of a text: the length of the
\* stripped text, whether a TOC pattern matches, whether an important
\* keyword occurs, the number of letters
_is_content_useful(text) ==
    IF text.stripped_len < 10 THEN FALSE
    ELSE IF text.toc THEN FALSE
    ELSE IF text.keyword THEN TRUE
    ELSE IF text.stripped_len < 30 THEN FALSE
    ELSE IF text.alpha < 10 THEN FALSE
    ELSE TRUE

\* a faulty variant: the key is built from the whole text
unique_key_whole_text(doc) == <<doc.text, doc.afi, doc.paragraph>>

\* f"{text[:100]}_{afi_number}_{paragraph}"
unique_key(doc) == <<doc.text.head, doc.afi, doc.paragraph>>

\* distances[index] if index < len(distances) else None
DistanceAt(distances, index) ==
    IF index <= Len(distances) THEN [none |-> FALSE, v |-> distances[index]]
    ELSE [none |-> TRUE, v |-> 0]

\* the loop of search_documents over the hits from index on:
\* acc = [formatted_results, seen_texts]
RECURSIVE FormatResults(_, _, _, _, _, _)
FormatResults(documents, distances, index, metric, min_score, acc) ==
    IF index > Len(documents) THEN acc
    ELSE
        LET doc == documents[index]
            distance == DistanceAt(distances, index)
            converted == _convert_distance_to_similarity(metric, distance)
            similarity_score == IF converted < 0 THEN 0 ELSE converted
            skip ==
                \/ similarity_score < min_score
                \/ ~_is_content_useful(doc.text)
                \/ unique_key(doc) \in acc.seen_texts
            next ==
                IF skip THEN acc
                ELSE [formatted_results |->
                          Append(acc.formatted_results,
                                 [id |-> doc.id, text |-> doc.text, afi |-> doc.afi,
                                  paragraph |-> doc.paragraph,
                                  similarity_score |-> similarity_score,
                                  distance |-> distance]),
                      seen_texts |-> acc.seen_texts \cup {unique_key(doc)}]
        IN FormatResults(documents, distances, index + 1, metric, min_score, next)

\* texts: a paragraph, a second paragraph with the same first 100
\* characters, a table-of-contents line, a short line with a keyword
TextBody == [head |-> "body", stripped_len |-> 240, toc |-> FALSE, keyword |-> FALSE, alpha |-> 180]
TextBodyVariant == [head |-> "body", stripped_len |-> 300, toc |-> FALSE, keyword |-> FALSE, alpha |-> 230]
TextToc == [head |-> "toc", stripped_len |-> 40, toc |-> TRUE, keyword |-> FALSE, alpha |-> 25]
TextKeyword == [head |-> "kw", stripped_len |-> 20, toc |-> FALSE, keyword |-> TRUE, alpha |-> 15]

\* the stored passages a query can hit
HitPool ==
    { [id |-> "h1", text |-> TextBody, afi |-> "A", paragraph |-> "8.9"],
      [id |-> "h2", text |-> TextBodyVariant, afi |-> "A", paragraph |-> "8.9"],
      [id |-> "h3", text |-> TextToc, afi |-> "A", paragraph |-> "8"],
      [id |-> "h4", text |-> TextKeyword, afi |-> "B", paragraph |-> "1.2"] }

\* the distances the store reports, in hundredths
Distances == {-50, 40, 150}

\* the hits of one store response: distinct passages in rank order
HitLists ==
    {h \in SeqsUpTo(HitPool, MaxHits) : \A i, j \in 1..Len(h) : i # j => h[i].id # h[j].id}

\* their distances as the response carries them, one per hit or fewer,
\* read as they come: the code neither sorts them nor checks their order
DistanceLists(n) == SeqsUpTo(Distances, n)

SearchOff ==
    /\ s_metric = "none"
    /\ s_min_score = 0
    /\ s_n_results = 0
    /\ s_embedding = "none"
    /\ s_documents = <<>>
    /\ s_distances = <<>>
    /\ s_store_queries = 0
    /\ s_out = <<>>
    /\ s_pc = "off"

SearchInit ==
    /\ s_metric \in Metrics
    /\ s_min_score \in {0, 15}
    /\ s_n_results \in {1, 2}
    /\ s_embedding = "none"
    /\ s_documents = <<>>
    /\ s_distances = <<>>
    /\ s_store_queries = 0
    /\ s_out = <<>>
    /\ s_pc = "embed"

\* search_documents: the query embedding is there
SearchEmbedded ==
    /\ s_pc = "embed"
    /\ s_embedding' = "vector"
    /\ s_pc' = "query"
    /\ UNCHANGED <<s_metric, s_min_score, s_n_results, s_documents, s_distances,
                   s_store_queries, s_out>>

\* search_documents: get_query_embedding returned None, [] is returned
SearchNoEmbedding ==
    /\ s_pc = "embed"
    /\ s_embedding' = "None"
    /\ s_out' = <<>>
    /\ s_pc' = "done"
    /\ UNCHANGED <<s_metric, s_min_score, s_n_results, s_documents, s_distances,
                   s_store_queries>>

\* the embedding model of the configuration, and the enhanced query text
EMBEDDING_MODEL == "m1"
SearchText == <<"a", " ">>

\* search_documents with the engine's cache already filled by earlier
\* searches
SearchCachedInit ==
    /\ s_metric = "cosine"
    /\ s_min_score = 0
    /\ s_n_results = 1
    /\ s_embedding = "none"
    /\ s_documents = <<>>
    /\ s_distances = <<>>
    /\ s_store_queries = 0
    /\ s_out = <<>>
    /\ s_pc = "embed"

\* the cache after earlier calls with distinct keys, each inserted once
SearchCacheInit ==
    /\ c_capacity \in 0..MaxCapacity
    /\ \E keys \in SeqsUpTo({cache_key(t, mo) : t \in CacheTexts, mo \in CacheModels},
                              c_capacity) :
           /\ \A i, j \in 1..Len(keys) : i # j => keys[i] # keys[j]
           /\ c_cache = [k \in 1..Len(keys) |-> [key |-> keys[k], embedding |-> "v1"]]
           /\ c_used = {[key |-> keys[k], at |-> k] : k \in 1..Len(keys)}
           /\ c_clock = Len(keys)
           /\ c_service_calls = Len(keys)
    /\ c_last = NoCall
    /\ c_threads = <<>>

\* search_documents up to the test of the embedding: get_query_embedding
\* on the engine's cache, and [] returned when it gave None
SearchGetEmbedding ==
    /\ s_pc = "embed"
    /\ \E service \in Embeddings \cup {"raise"} :
        LET call == get_query_embedding(c_cache, c_capacity, SearchText, EMBEDDING_MODEL,
                                        service)
        IN /\ c_cache' = call.cache
           /\ c_clock' = c_clock + 1
           /\ c_service_calls' = c_service_calls + (IF call.service_called THEN 1 ELSE 0)
           /\ c_used' = UsedAfter(c_used, call, cache_key(SearchText, EMBEDDING_MODEL),
                                  c_clock + 1)
           /\ c_last' = [text |-> SearchText, model |-> EMBEDDING_MODEL,
                         result |-> call.result,
                         service |-> IF call.service_called THEN service ELSE "none",
                         service_called |-> call.service_called,
                         evicted |-> call.evicted, before |-> c_cache,
                         used_before |-> c_used]
           /\ s_embedding' = IF call.result = "None" THEN "None" ELSE "vector"
           /\ s_pc' = IF call.result = "None" THEN "done" ELSE "query"
    /\ s_out' = <<>>
    /\ UNCHANGED <<s_metric, s_min_score, s_n_results, s_documents, s_distances,
                   s_store_queries, c_capacity, c_threads>>

\* collection.query raises: the error leaves search_documents
SearchQueryRaises ==
    /\ s_pc = "query"
    /\ s_store_queries' = s_store_queries + 1
    /\ s_pc' = "raised"
    /\ UNCHANGED <<s_metric, s_min_score, s_n_results, s_embedding, s_documents,
                   s_distances, s_out>>

\* collection.query answers with at most min(n_results * 4, 25) hits
SearchQuery ==
    /\ s_pc = "query"
    /\ s_store_queries' = s_store_queries + 1
    /\ s_documents' \in {h \in HitLists : Len(h) <= Min(s_n_results * 4, 25)}
    /\ s_distances' \in DistanceLists(Len(s_documents'))
    /\ s_pc' = "format"
    /\ UNCHANGED <<s_metric, s_min_score, s_n_results, s_embedding, s_out>>

\* the loop over the hits and the cut to n_results
SearchFormat ==
    /\ s_pc = "format"
    /\ s_out' = Take(FormatResults(s_documents, s_distances, 1, s_metric, s_min_score,
                                   [formatted_results |-> <<>>, seen_texts |-> {}]
                                  ).formatted_results,
                     s_n_results)
    /\ s_pc' = "done"
    /\ UNCHANGED <<s_metric, s_min_score, s_n_results, s_embedding, s_documents,
                   s_distances, s_store_queries>>

\* ------------------------------------------------ claims: retrieval engine

\* C9: whatever the finite distance and the metric, the similarity_score of
\* every passage search_documents returns lies in [0, 1].
C9_SimilarityInUnitInterval ==
    s_pc = "done" =>
        \A k \in 1..Len(s_out) :
            /\ s_out[k].similarity_score >= 0
            /\ s_out[k].similarity_score <= One

\* -------------------------------------------------------- RAGChatSystem

DEFAULT_CONTEXT_TOKEN_MULTIPLIER == 4
DEFAULT_MAX_COMPLETION_TOKENS == 1500
\* DEFAULT_FILTER_MIN_SIMILARITY = 0.05, in hundredths
DEFAULT_FILTER_MIN_SIMILARITY == 5

\* the parameters of ResponseGenerator.generate
GenerateParameters == {"user_query", "context", "model", "sources", "knowledge_only"}

\* the keywords generate_answer passes to ResponseGenerator.generate
GenerateAnswerKeywords ==
    {"user_query", "context", "model", "sources", "knowledge_only", "procedural_mode"}

\* what ResponseGenerator.generate does once entered: it raises (a primary
\* failure without retry, or the answer still empty after the fallback) or
\* returns (answer, model used)
GenerationOutcomes == {"raise", "answer"}

\* generate_answer: Python binds the keywords to the parameters of generate
\* and raises TypeError for a keyword generate does not have; only a call
\* that binds enters generate
generate_answer(outcome) ==
    IF ~(GenerateAnswerKeywords \subseteq GenerateParameters)
        THEN [exception |-> "TypeError", entered |-> FALSE]
    ELSE IF outcome = "raise"
        THEN [exception |-> "RuntimeError", entered |-> TRUE]
    ELSE [exception |-> "none", entered |-> TRUE]

\* max_tokens * config.context_token_multiplier, max_tokens being the
\* request's or, when that is None or 0, config.default_max_tokens
context_token_limit(max_tokens, default_max_tokens) ==
    (IF max_tokens # 0 THEN max_tokens ELSE default_max_tokens)
        * DEFAULT_CONTEXT_TOKEN_MULTIPLIER

\* doc.get(key, default) on a passage
DictGet(doc, key, default) == IF key \in DOMAIN doc THEN doc[key] ELSE default

\* the sources built from the filtered passages: the score is read under
\* the key "similarity", which no passage has, so it is 0.0
BuildSources(filtered_results) ==
    [k \in 1..Len(filtered_results) |->
        [reference |-> k, id |-> filtered_results[k].id,
         similarity_score |-> DictGet(filtered_results[k], "similarity", 0)]]

\* "\n\n".join of the passage texts as tokens: each text is one token (the
\* passage id), the separator is the token 0
RECURSIVE JoinTexts(_)
JoinTexts(filtered_results) ==
    IF filtered_results = <<>> THEN <<>>
    ELSE IF Len(filtered_results) = 1 THEN <<Head(filtered_results).id>>
    ELSE <<Head(filtered_results).id, 0>> \o JoinTexts(Tail(filtered_results))

NoEnvelope ==
    [kind |-> "none", success |-> FALSE, knowledge_fallback |-> FALSE,
     sources |-> <<>>, context |-> <<>>, search_results_count |-> 0,
     filtered_results_count |-> 0, relevance_filter_fallback |-> "absent",
     context_truncated |-> FALSE, context_length |-> 0, context_token_limit |-> 0,
     timings |-> {}, filter_ms |-> "absent"]

\* the dictionary returned on the two knowledge-fallback paths
FallbackEnvelope(search_results, after_filter, limit) ==
    [kind |-> "envelope", success |-> TRUE, knowledge_fallback |-> TRUE,
     sources |-> <<>>, context |-> <<>>,
     search_results_count |-> IF after_filter THEN Len(search_results) ELSE 0,
     filtered_results_count |-> 0,
     relevance_filter_fallback |-> IF after_filter THEN "True" ELSE "False",
     context_truncated |-> FALSE, context_length |-> 0, context_token_limit |-> limit,
     timings |-> IF after_filter
                     THEN {"total_ms", "retrieval_ms", "filter_ms", "generation_ms"}
                     ELSE {"total_ms", "generation_ms"},
     filter_ms |-> IF after_filter THEN "ms" ELSE "absent"]

\* the dictionary returned after generation over the assembled context
AnswerEnvelope(search_results, filtered_results, assembled, filtered, limit) ==
    [kind |-> "envelope", success |-> TRUE, knowledge_fallback |-> FALSE,
     sources |-> BuildSources(filtered_results),
     context |-> BuildSources(filtered_results),
     search_results_count |-> Len(search_results),
     filtered_results_count |-> Len(filtered_results),
     relevance_filter_fallback |-> "absent",
     context_truncated |-> assembled.truncated,
     context_length |-> assembled.token_count,
     context_token_limit |-> limit,
     timings |-> {"total_ms", "retrieval_ms", "filter_ms", "generation_ms"},
     filter_ms |-> IF filtered THEN "ms" ELSE "None"]

\* what retrieve_docs can return for n_results: at most n_results
\* passages in the order of the store's answer, which search_documents
\* keeps
RetrievedLists(n_results) ==
    {[k \in 1..Len(sims) |-> [id |-> k, similarity_score |-> sims[k]]] :
        sims \in SeqsUpTo(CandSims, Min(n_results, MaxRetrieved))}

NoGenerateRequest == <<>>

\* the afi_number argument as its pieces: none given, blank, a bare
\* number, a number with its prefix
AfiNumbers == {<<>>, <<" ">>, <<"36-2903">>, <<"afi", " ", "36-2903">>}

\* str.upper() over the pieces of an afi_number
UpperPiece(piece) == IF piece = "afi" THEN "AFI" ELSE piece

\* candidate.upper().startswith(("AFI", "DAFI"))
HasAfiPrefix(candidate) ==
    candidate # <<>> /\ UpperPiece(Head(candidate)) \in {"AFI", "DAFI"}

\* what a test search of resolve_afi_filter (search_documents with
\* n_results = 1) can do: the store raises, nothing is found, a passage is
TestSearchOutcomes == {"raise", "empty", "found"}

\* resolve_afi_filter for the outcomes of its test searches in call order:
\* the value resolved, the searches made, the error that leaves it
resolve_afi_filter(afi_number, outcomes) ==
    LET candidate == Strip(afi_number)
        resolved(value, searches) ==
            [resolved |-> value, searches |-> searches, exception |-> "none"]
        raised(searches) ==
            [resolved |-> <<"None">>, searches |-> searches, exception |-> "StoreError"]
    IN IF afi_number = <<>> \/ candidate = <<>> THEN resolved(<<"None">>, 0)
       ELSE IF outcomes[1] = "raise" THEN raised(1)
       ELSE IF outcomes[1] = "found" THEN resolved(candidate, 1)
       ELSE IF HasAfiPrefix(candidate) THEN resolved(candidate, 1)
       ELSE IF outcomes[2] = "raise" THEN raised(2)
       ELSE IF outcomes[2] = "found" THEN resolved(<<"AFI", " ">> \o candidate, 2)
       ELSE IF outcomes[3] = "raise" THEN raised(3)
       ELSE IF outcomes[3] = "found" THEN resolved(<<"DAFI", " ">> \o candidate, 3)
       ELSE resolved(afi_number, 3)

\* metadata of _prepare_filter_metadata without an afi_number key
NoAfiFilter == <<"absent">>

OrchOff ==
    /\ o_n_results = 0
    /\ o_use_filter = FALSE
    /\ o_max_tokens = 0
    /\ o_notice_len = 0
    /\ o_afi_number = <<>>
    /\ o_default_max_tokens = 0
    /\ o_search_results = <<>>
    /\ o_first_retrieval = "none"
    /\ o_retrievals = 0
    /\ o_procedural_mode = FALSE
    /\ o_apply_filter = FALSE
    /\ o_filtered_results = <<>>
    /\ o_filter_calls = 0
    /\ o_assembled = NoTruncation
    /\ o_assemble_calls = 0
    /\ o_generate_requests = NoGenerateRequest
    /\ o_generate_calls = 0
    /\ o_envelope = NoEnvelope
    /\ o_exception = "none"
    /\ o_pc = "off"
    /\ o_context_token_limit = 0
    /\ o_request = 0
    /\ o_retrieval_requests = <<>>
    /\ o_filter_metadata = NoAfiFilter
    /\ o_resolve_searches = 0

OrchInit ==
    /\ o_n_results \in {2, 10}
    /\ o_use_filter \in BOOLEAN
    /\ o_max_tokens \in 0..MaxCompletionTokens
    /\ o_notice_len \in 1..MaxNoticeTokens
    /\ o_afi_number \in AfiNumbers
    /\ o_default_max_tokens = DEFAULT_MAX_COMPLETION_TOKENS
    /\ o_search_results = <<>>
    /\ o_first_retrieval = "none"
    /\ o_retrievals = 0
    /\ o_procedural_mode = FALSE
    /\ o_apply_filter = FALSE
    /\ o_filtered_results = <<>>
    /\ o_filter_calls = 0
    /\ o_assembled = NoTruncation
    /\ o_assemble_calls = 0
    /\ o_generate_requests = NoGenerateRequest
    /\ o_generate_calls = 0
    /\ o_envelope = NoEnvelope
    /\ o_exception = "none"
    /\ o_pc = "prepare"
    /\ o_context_token_limit = 0
    /\ o_request = 1
    /\ o_retrieval_requests = <<>>
    /\ o_filter_metadata = NoAfiFilter
    /\ o_resolve_searches = 0

OrchInputs == <<o_n_results, o_use_filter, o_max_tokens, o_notice_len, o_afi_number,
                o_request>>

\* config.default_max_tokens and the request's context_token_limit
OrchLimits == <<o_default_max_tokens, o_context_token_limit>>

\* the request's context_token_limit once it is computed
OrchTokenLimit == o_context_token_limit

\* the n_results of the request's calls of retrieve_docs
OrchLog == <<o_retrieval_requests>>

\* the afi_number of filter_metadata and the test searches made for it
OrchPrepared == <<o_filter_metadata, o_resolve_searches>>

\* a faulty variant: the second retrieval asks for n_results again
rerun_n_results_unchanged(n_results) == n_results

\* max(8, n_results), the n_results of the second retrieval
rerun_n_results(n_results) == Max(8, n_results)

\* the settings of the request are resolved and written to the shared
\* configuration, then _prepare_filter_metadata resolves the afi_number
\* with up to three test searches; a store error in one of them leaves
\* generate_rag_response, which has no handler
OrchPrepare ==
    /\ o_pc = "prepare"
    /\ o_default_max_tokens' =
           IF o_max_tokens # 0 THEN o_max_tokens ELSE o_default_max_tokens
    /\ o_context_token_limit' = context_token_limit(o_max_tokens, o_default_max_tokens)
    /\ o_apply_filter' = o_use_filter
    /\ \E outcomes \in [1..3 -> TestSearchOutcomes] :
        LET call == resolve_afi_filter(o_afi_number, outcomes)
        IN /\ o_resolve_searches' = call.searches
           /\ o_exception' = call.exception
           /\ o_filter_metadata' =
                  IF o_afi_number = <<>> \/ call.exception # "none" THEN NoAfiFilter
                  ELSE call.resolved
           /\ o_pc' = IF call.exception = "none" THEN "retrieve" ELSE "raised"
    /\ UNCHANGED <<OrchInputs, OrchLog, o_search_results, o_first_retrieval,
                   o_retrievals, o_procedural_mode, o_filtered_results, o_filter_calls,
                   o_assembled, o_assemble_calls, o_generate_requests, o_generate_calls,
                   o_envelope>>

\* Stage 1, the store fails: the error leaves retrieve_docs and
\* generate_rag_response, which has no handler
OrchRetrieveRaises ==
    /\ o_pc = "retrieve"
    /\ o_retrievals' = o_retrievals + 1
    /\ o_retrieval_requests' = Append(o_retrieval_requests, o_n_results)
    /\ o_first_retrieval' = "raised"
    /\ o_exception' = "StoreError"
    /\ o_pc' = "raised"
    /\ UNCHANGED <<OrchInputs, OrchLimits, OrchPrepared, o_search_results,
                   o_procedural_mode, o_apply_filter, o_filtered_results,
                   o_filter_calls, o_assembled, o_assemble_calls, o_generate_requests,
                   o_generate_calls, o_envelope>>

\* Stage 1: the first retrieval returns
OrchRetrieve ==
    /\ o_pc = "retrieve"
    /\ o_retrievals' = o_retrievals + 1
    /\ o_retrieval_requests' = Append(o_retrieval_requests, o_n_results)
    /\ o_search_results' \in RetrievedLists(o_n_results)
    /\ o_first_retrieval' = IF o_search_results' = <<>> THEN "empty" ELSE "passages"
    /\ o_pc' = IF o_search_results' = <<>> THEN "knowledge" ELSE "detect"
    /\ UNCHANGED <<OrchInputs, OrchLimits, OrchPrepared, o_procedural_mode,
                   o_apply_filter, o_filtered_results, o_filter_calls, o_assembled,
                   o_assemble_calls, o_generate_requests, o_generate_calls, o_envelope,
                   o_exception>>

\* no passages: generate_answer with empty context and sources and
\* knowledge_only = True, then the fallback dictionary
OrchKnowledgeFallback ==
    /\ o_pc = "knowledge"
    /\ \E outcome \in GenerationOutcomes :
        LET call == generate_answer(outcome)
        IN /\ o_generate_requests' =
                  Append(o_generate_requests,
                         [context |-> <<>>, sources |-> <<>>, knowledge_only |-> TRUE])
           /\ o_generate_calls' = o_generate_calls + (IF call.entered THEN 1 ELSE 0)
           /\ o_exception' = call.exception
           /\ o_envelope' = IF call.exception = "none"
                                THEN FallbackEnvelope(o_search_results, FALSE, OrchTokenLimit)
                                ELSE o_envelope
           /\ o_pc' = IF call.exception = "none" THEN "done" ELSE "raised"
    /\ UNCHANGED <<OrchInputs, OrchLimits, o_search_results, o_first_retrieval,
                   o_retrievals, o_procedural_mode, o_apply_filter, o_filtered_results,
                   o_filter_calls, o_assembled, o_assemble_calls>>
    /\ UNCHANGED <<OrchLog, OrchPrepared>>

\* the call of detect_procedural_intent on the RetrievalEngine of
\* rag/retrieval.py, which has no such method: AttributeError leaves
\* generate_rag_response
OrchDetectProcedural ==
    /\ o_pc = "detect"
    /\ o_exception' = "AttributeError"
    /\ o_pc' = "raised"
    /\ UNCHANGED <<OrchInputs, OrchLimits, OrchLog, OrchPrepared, o_search_results,
                   o_first_retrieval, o_retrievals, o_procedural_mode, o_apply_filter,
                   o_filtered_results, o_filter_calls, o_assembled, o_assemble_calls,
                   o_generate_requests, o_generate_calls, o_envelope>>

\* what a detect_procedural_intent can answer: a heuristic over the query
\* and the passages that says yes or no
ProceduralVerdicts == BOOLEAN

\* the call of detect_procedural_intent on a retrieval engine that has
\* the method
OrchDetectProceduralSupplied ==
    /\ o_pc = "detect"
    /\ o_procedural_mode' \in ProceduralVerdicts
    /\ o_pc' = "procedural"
    /\ UNCHANGED <<OrchInputs, OrchLimits, OrchLog, OrchPrepared, o_search_results,
                   o_first_retrieval, o_retrievals, o_apply_filter, o_filtered_results,
                   o_filter_calls, o_assembled, o_assemble_calls, o_generate_requests,
                   o_generate_calls, o_envelope, o_exception>>

\* procedural_mode switches the relevance filter off and, for
\* n_results < 8, leads to the second retrieval
OrchProceduralMode ==
    /\ o_pc = "procedural"
    /\ o_apply_filter' = IF o_procedural_mode THEN FALSE ELSE o_apply_filter
    /\ o_pc' = IF o_procedural_mode /\ o_n_results < 8 THEN "reretrieve" ELSE "expand"
    /\ UNCHANGED <<OrchInputs, OrchLimits, OrchLog, OrchPrepared, o_search_results,
                   o_first_retrieval, o_retrievals, o_procedural_mode,
                   o_filtered_results, o_filter_calls, o_assembled, o_assemble_calls,
                   o_generate_requests, o_generate_calls, o_envelope, o_exception>>

\* procedural and n_results < 8: the second retrieval, with max(8, n_results)
OrchReRetrieve ==
    /\ o_pc = "reretrieve"
    /\ o_retrievals' = o_retrievals + 1
    /\ o_retrieval_requests' = Append(o_retrieval_requests, rerun_n_results(o_n_results))
    /\ \/ /\ o_search_results' \in RetrievedLists(rerun_n_results(o_n_results))
          /\ o_pc' = "expand"
          /\ UNCHANGED o_exception
       \/ /\ o_exception' = "StoreError"
          /\ o_pc' = "raised"
          /\ UNCHANGED o_search_results
    /\ UNCHANGED <<OrchInputs, OrchLimits, OrchPrepared, o_first_retrieval,
                   o_procedural_mode, o_apply_filter, o_filtered_results,
                   o_filter_calls, o_assembled, o_assemble_calls, o_generate_requests,
                   o_generate_calls, o_envelope>>

\* "procedural_mode and self.config.neighbor_hops > 0": the attribute is
\* read only in procedural mode, and RAGConfig has no neighbor_hops
NeighborHopsRead(procedural_mode) ==
    IF procedural_mode THEN "AttributeError" ELSE "skipped"

\* the neighbour expansion: in procedural mode the read of
\* config.neighbor_hops raises AttributeError, which leaves
\* generate_rag_response; otherwise the block is skipped
OrchExpandNeighbors ==
    /\ o_pc = "expand"
    /\ IF NeighborHopsRead(o_procedural_mode) = "AttributeError"
           THEN /\ o_exception' = "AttributeError"
                /\ o_pc' = "raised"
           ELSE /\ o_pc' = "filter"
                /\ UNCHANGED o_exception
    /\ UNCHANGED <<OrchInputs, OrchLimits, OrchLog, OrchPrepared, o_search_results,
                   o_first_retrieval, o_retrievals, o_procedural_mode, o_apply_filter,
                   o_filtered_results, o_filter_calls, o_assembled, o_assemble_calls,
                   o_generate_requests, o_generate_calls, o_envelope>>

\* the values a configuration with a neighbor_hops field can give it
NeighborHops == {0, 1}

\* what an expand_with_neighbors can return: nothing, or the passages
\* with a neighbour added
NeighborExpansions(search_results) ==
    {<<>>, Append(search_results, [id |-> Len(search_results) + 1, similarity_score |-> 0])}

\* the neighbour expansion on a configuration that has neighbor_hops and a
\* retrieval engine that has expand_with_neighbors: in procedural mode
\* with hops > 0 the passages are replaced by the expansion unless it is
\* empty
OrchExpandNeighborsSupplied ==
    /\ o_pc = "expand"
    /\ \E neighbor_hops \in NeighborHops :
           IF o_procedural_mode /\ neighbor_hops > 0
               THEN \E expanded_results \in NeighborExpansions(o_search_results) :
                        o_search_results' = IF expanded_results # <<>>
                                                THEN expanded_results
                                                ELSE o_search_results
               ELSE UNCHANGED o_search_results
    /\ o_pc' = "filter"
    /\ UNCHANGED <<OrchInputs, OrchLimits, OrchLog, OrchPrepared, o_first_retrieval,
                   o_retrievals, o_procedural_mode, o_apply_filter, o_filtered_results,
                   o_filter_calls, o_assembled, o_assemble_calls, o_generate_requests,
                   o_generate_calls, o_envelope, o_exception>>

\* Stage 2: the relevance filter when apply_filter, and the knowledge
\* fallback when it leaves nothing
OrchFilter ==
    /\ o_pc = "filter"
    /\ IF ~o_apply_filter
           THEN /\ o_filtered_results' = o_search_results
                /\ o_pc' = "assemble"
                /\ UNCHANGED <<o_filter_calls, o_generate_requests, o_generate_calls,
                               o_envelope, o_exception>>
           ELSE \E response \in Responses(Len(o_search_results)),
                   outcome \in GenerationOutcomes :
                LET filtered_results ==
                        FilterOutcome(o_search_results, DEFAULT_FILTER_MIN_SIMILARITY,
                                      response)
                    call == generate_answer(outcome)
                IN /\ o_filtered_results' = filtered_results
                   /\ o_filter_calls' = o_filter_calls + 1
                   /\ IF filtered_results # <<>>
                          THEN /\ o_pc' = "assemble"
                               /\ UNCHANGED <<o_generate_requests, o_generate_calls,
                                              o_envelope, o_exception>>
                          ELSE /\ o_generate_requests' =
                                      Append(o_generate_requests,
                                             [context |-> <<>>, sources |-> <<>>,
                                              knowledge_only |-> TRUE])
                               /\ o_generate_calls' =
                                      o_generate_calls + (IF call.entered THEN 1 ELSE 0)
                               /\ o_exception' = call.exception
                               /\ o_envelope' =
                                      IF call.exception = "none"
                                          THEN FallbackEnvelope(o_search_results, TRUE,
                                                                OrchTokenLimit)
                                          ELSE o_envelope
                               /\ o_pc' = IF call.exception = "none" THEN "done"
                                          ELSE "raised"
    /\ UNCHANGED <<OrchInputs, OrchLimits, o_search_results, o_first_retrieval,
                   o_retrievals, o_procedural_mode, o_apply_filter, o_assembled,
                   o_assemble_calls>>
    /\ UNCHANGED <<OrchLog, OrchPrepared>>

\* Stage 3, first half: sources, context entries, the joined and truncated
\* context
OrchAssemble ==
    /\ o_pc = "assemble"
    /\ o_assembled' = truncate_context_if_needed(JoinTexts(o_filtered_results),
                                                 OrchTokenLimit, o_notice_len)
    /\ o_assemble_calls' = o_assemble_calls + 1
    /\ o_pc' = "generate"
    /\ UNCHANGED <<OrchInputs, OrchLimits, o_search_results, o_first_retrieval,
                   o_retrievals, o_procedural_mode, o_apply_filter, o_filtered_results,
                   o_filter_calls, o_generate_requests, o_generate_calls, o_envelope,
                   o_exception>>
    /\ UNCHANGED <<OrchLog, OrchPrepared>>

\* Stage 3, second half: generate_answer over the context, then the
\* dictionary with the answer
OrchGenerate ==
    /\ o_pc = "generate"
    /\ \E outcome \in GenerationOutcomes :
        LET call == generate_answer(outcome)
        IN /\ o_generate_requests' =
                  Append(o_generate_requests,
                         [context |-> o_assembled.text,
                          sources |-> BuildSources(o_filtered_results),
                          knowledge_only |-> FALSE])
           /\ o_generate_calls' = o_generate_calls + (IF call.entered THEN 1 ELSE 0)
           /\ o_exception' = call.exception
           /\ o_envelope' =
                  IF call.exception = "none"
                      THEN AnswerEnvelope(o_search_results, o_filtered_results,
                                          o_assembled, o_filter_calls > 0, OrchTokenLimit)
                      ELSE o_envelope
           /\ o_pc' = IF call.exception = "none" THEN "done" ELSE "raised"
    /\ UNCHANGED <<OrchInputs, OrchLimits, o_search_results, o_first_retrieval,
                   o_retrievals, o_procedural_mode, o_apply_filter, o_filtered_results,
                   o_filter_calls, o_assembled, o_assemble_calls>>
    /\ UNCHANGED <<OrchLog, OrchPrepared>>

\* the next call of generate_rag_response on the same RAGChatSystem: the
\* request's own state starts afresh, self.config is the same object
OrchNextRequest ==
    /\ o_pc \in {"done", "raised"}
    /\ o_request < MaxRequests
    /\ o_request' = o_request + 1
    /\ o_n_results' \in {2, 10}
    /\ o_use_filter' \in BOOLEAN
    /\ o_max_tokens' \in 0..MaxCompletionTokens
    /\ o_afi_number' \in AfiNumbers
    /\ o_search_results' = <<>>
    /\ o_first_retrieval' = "none"
    /\ o_retrievals' = 0
    /\ o_procedural_mode' = FALSE
    /\ o_apply_filter' = FALSE
    /\ o_filtered_results' = <<>>
    /\ o_filter_calls' = 0
    /\ o_assembled' = NoTruncation
    /\ o_assemble_calls' = 0
    /\ o_generate_requests' = NoGenerateRequest
    /\ o_generate_calls' = 0
    /\ o_envelope' = NoEnvelope
    /\ o_exception' = "none"
    /\ o_context_token_limit' = 0
    /\ o_retrieval_requests' = <<>>
    /\ o_filter_metadata' = NoAfiFilter
    /\ o_resolve_searches' = 0
    /\ o_pc' = "prepare"
    /\ UNCHANGED <<o_notice_len, o_default_max_tokens>>

\* ------------------------------------------ claims: retrieval engine, cont.

\* the fingerprint of a passage: document, paragraph, first 100 characters
Fingerprint(p) == [afi |-> p.afi, paragraph |-> p.paragraph, head |-> p.text.head]

\* hit i of the store response passes the score and the usefulness filter
HitPasses(i) ==
    LET converted == _convert_distance_to_similarity(s_metric, DistanceAt(s_distances, i))
    IN /\ (IF converted < 0 THEN 0 ELSE converted) >= s_min_score
       /\ _is_content_useful(s_documents[i].text)

\* the rank of the hit with the given id in the store response
RankOf(id) == CHOOSE i \in 1..Len(s_documents) : s_documents[i].id = id

\* C20: no two passages of a list returned by search_documents share a
\* fingerprint (afi_number, paragraph, first 100 characters of the text),
\* and of the hits with one fingerprint that pass the score and usefulness
\* filters only the first in store rank order is kept.
C20_NoDuplicateFingerprints ==
    s_pc = "done" =>
        /\ \A i, j \in 1..Len(s_out) :
               i # j => Fingerprint(s_out[i]) # Fingerprint(s_out[j])
        /\ \A k \in 1..Len(s_out) :
               /\ \E i \in 1..Len(s_documents) : s_documents[i].id = s_out[k].id
               /\ \A j \in 1..(RankOf(s_out[k].id) - 1) :
                      ~(HitPasses(j)
                        /\ Fingerprint(s_documents[j]) = Fingerprint(s_out[k]))

\* C20's case: two hits that pass both filters share a fingerprint, there
\* is room for both, and only the first is returned
C20_Witness ==
    /\ s_pc = "done"
    /\ s_n_results = 2
    /\ \E i, j \in 1..Len(s_documents) :
           /\ i < j
           /\ HitPasses(i) /\ HitPasses(j)
           /\ Fingerprint(s_documents[i]) = Fingerprint(s_documents[j])
           /\ s_documents[i].text # s_documents[j].text
           /\ \E k \in 1..Len(s_out) : s_out[k].id = s_documents[i].id
           /\ \A k \in 1..Len(s_out) : s_out[k].id # s_documents[j].id
    /\ Len(s_out) = 1

\* the similarities of a returned list do not increase along it
DescendingSimilarity(out) ==
    \A k \in 1..(Len(out) - 1) : out[k].similarity_score >= out[k + 1].similarity_score

\* the response is one of the store's ranked answers: the distances it
\* carries do not decrease along the hits (nearest first)
RankedResponse(distances) ==
    \A i \in 1..(Len(distances) - 1) : distances[i] <= distances[i + 1]

\* C21: for every vector-store response, search_documents returns at most
\* n_results passages, each with similarity >= min_score; and for every
\* response in the store's rank order (nearest first) the list is in
\* descending similarity order, passages of equal similarity in store
\* rank order.
C21_RankedBoundedResults ==
    s_pc = "done" =>
        /\ Len(s_out) <= s_n_results
        /\ \A k \in 1..Len(s_out) : s_out[k].similarity_score >= s_min_score
        /\ \A k \in 1..(Len(s_out) - 1) :
               s_out[k].similarity_score = s_out[k + 1].similarity_score
                   => RankOf(s_out[k].id) < RankOf(s_out[k + 1].id)
        /\ RankedResponse(s_distances) => DescendingSimilarity(s_out)

\* C21's case: the store answered with three hits, a hit under min_score
\* was dropped, and the two passages returned for n_results = 2 are the
\* nearer one first
C21_Witness ==
    /\ s_pc = "done"
    /\ s_n_results = 2
    /\ s_min_score > 0
    /\ Len(s_documents) = 3
    /\ Len(s_distances) = 3
    /\ RankedResponse(s_distances)
    /\ Len(s_out) = 2
    /\ s_out[1].similarity_score > s_out[2].similarity_score

\* --------------------------------------------------- claims: orchestrator

\* the request's context token limit has been computed
OrchLimitResolved == o_pc \notin {"off", "prepare"}

\* C17: requests are independent: the context token limit and the
\* generation max-tokens of a request follow from its own max_tokens and
\* the configuration given at construction alone, whatever an earlier
\* request asked for; a request without max_tokens uses the configured
\* default.
C17_RequestsIndependent ==
    OrchLimitResolved =>
        LET own == IF o_max_tokens # 0 THEN o_max_tokens
                   ELSE DEFAULT_MAX_COMPLETION_TOKENS
        IN /\ o_context_token_limit = own * DEFAULT_CONTEXT_TOKEN_MULTIPLIER
           /\ o_default_max_tokens = own

\* the call of generate_rag_response is over: it returned or an exception
\* left it
OrchTerminal == o_pc \in {"done", "raised"}

\* C3: when the retrieval returns no passages, generate_rag_response calls
\* neither the relevance filter nor the context assembly, enters generation
\* exactly once with empty context, empty sources and knowledge_only = true,
\* and returns an envelope with success and knowledge_fallback true,
\* sources = [], context = [] and search_results_count = 0.
C3_EmptyRetrievalKnowledgeFallback ==
    (OrchTerminal /\ o_first_retrieval = "empty") =>
        /\ o_filter_calls = 0
        /\ o_assemble_calls = 0
        /\ o_generate_calls = 1
        /\ o_generate_requests =
               <<[context |-> <<>>, sources |-> <<>>, knowledge_only |-> TRUE]>>
        /\ o_envelope.kind = "envelope"
        /\ o_envelope.success
        /\ o_envelope.knowledge_fallback
        /\ o_envelope.sources = <<>>
        /\ o_envelope.context = <<>>
        /\ o_envelope.search_results_count = 0

\* C4: every call of generate_rag_response ends with an envelope returned to
\* the caller and no exception leaving it: a failed stage or an exhausted
\* generation gives success = false, and success = true only comes with an
\* answer.
C4_AlwaysReturnsEnvelope ==
    OrchTerminal =>
        /\ o_pc = "done"
        /\ o_exception = "none"
        /\ o_envelope.kind = "envelope"

\* the request is past its filter stage
OrchPastFilter == o_pc \in {"assemble", "generate"} \/ o_assemble_calls > 0

\* the request is over and neither a store error nor the generation call
\* ended it early
OrchRanItsCourse ==
    /\ OrchTerminal
    /\ o_exception \notin {"StoreError", "TypeError", "RuntimeError"}

\* C26: when procedural intent is detected the relevance filter is not
\* invoked even if filtering was requested, the filtered set is the
\* candidate set as re-retrieved and expanded, and a request with
\* n_results below 8 runs retrieval a second time with n_results = 8 before
\* assembly; when it is not detected, retrieval runs once and nothing is
\* expanded.
C26_ProceduralPath ==
    /\ o_procedural_mode =>
           /\ o_filter_calls = 0
           /\ OrchPastFilter => o_filtered_results = o_search_results
           /\ (o_n_results < 8 /\ o_pc \notin {"procedural", "reretrieve"})
                  => o_retrieval_requests = <<o_n_results, 8>>
           /\ (o_n_results < 8 /\ o_pc \in {"procedural", "reretrieve"})
                  => o_assemble_calls = 0
           /\ OrchRanItsCourse =>
                  (o_assemble_calls = 1 /\ o_filtered_results = o_search_results)
    /\ ~o_procedural_mode
           => Len(o_retrieval_requests) = (IF o_first_retrieval = "none" THEN 0 ELSE 1)

\* C27: no request ends with relevance_filter_fallback = true: the
\* relevance filter is invoked on a non-empty candidate list only and then
\* returns a non-empty list, so the knowledge fallback after the filter is
\* never entered.
C27_FilterFallbackUnreachable ==
    /\ o_envelope.relevance_filter_fallback # "True"
    /\ o_filter_calls > 0 => (o_search_results # <<>> /\ o_filtered_results # <<>>)
    /\ \A k \in 1..Len(o_generate_requests) :
           o_generate_requests[k].knowledge_only => o_first_retrieval = "empty"

\* C27's case: the filter ran on candidates that are all under the floor,
\* and the request went on to assembly with what the fallback kept
C27_Witness ==
    /\ o_pc = "assemble"
    /\ o_filter_calls = 1
    /\ Len(o_search_results) = 2
    /\ \A k \in 1..Len(o_search_results) :
           o_search_results[k].similarity_score < DEFAULT_FILTER_MIN_SIMILARITY
    /\ o_filtered_results # <<>>

\* C28: generation with knowledge_only = false is invoked with at least
\* one passage only, also after the second retrieval of the procedural
\* path, so an envelope with knowledge_fallback = false has sources and
\* context.
C28_GroundedGenerationHasPassages ==
    /\ \A k \in 1..Len(o_generate_requests) :
           ~o_generate_requests[k].knowledge_only
               => (o_generate_requests[k].sources # <<>>
                   /\ o_generate_requests[k].context # <<>>)
    /\ (o_envelope.kind = "envelope" /\ ~o_envelope.knowledge_fallback)
           => (o_envelope.sources # <<>> /\ o_envelope.context # <<>>)

\* C30: the sources and the context entries built for the envelope are as
\* many as the filtered passages, carry the references 1..n in filtered
\* order, and each carries the similarity_score of its passage.
C30_SourcesMirrorFiltered ==
    /\ \A k \in 1..Len(o_generate_requests) :
           ~o_generate_requests[k].knowledge_only =>
               LET sources == o_generate_requests[k].sources
               IN /\ Len(sources) = Len(o_filtered_results)
                  /\ \A i \in 1..Len(sources) :
                         /\ sources[i].reference = i
                         /\ sources[i].id = o_filtered_results[i].id
                         /\ sources[i].similarity_score
                                = o_filtered_results[i].similarity_score
    /\ o_envelope.kind = "envelope" =>
           /\ Len(o_envelope.sources) = o_envelope.filtered_results_count
           /\ Len(o_envelope.context) = o_envelope.filtered_results_count

\* ------------------------------------------ claims: response generator, cont.

\* the lines of an answer after its first "## Citations" heading
CitationsSection(answer) ==
    IF FirstCitations(answer) = 0 THEN <<>>
    ELSE SubSeq(answer, FirstCitations(answer) + 1, Len(answer))

\* the citation lines built from the sources alone, with the fixed note
\* that follows them when the answer mentions model knowledge and they do
\* not
DerivedCitations ==
    CitationLines(g_sources)
        \o (IF NeedsModelKnowledgeNote(AnswerLines(g_answer_text), g_sources)
                THEN <<"- Model knowledge">> ELSE <<>>)

\* C24: for every sources list, the empty one included, a citations
\* section of the returned answer is built from the sources alone and no
\* section the model wrote is returned.
C24_CitationsFromSources ==
    (g_pc = "done" /\ g_result.kind = "returned") =>
        /\ FirstCitations(g_result.answer) > 0
               => CitationsSection(g_result.answer) = DerivedCitations
        /\ \A k \in 1..Len(g_result.answer) : g_result.answer[k] # "cited by the model"

\* the embedding service raised in the last call of get_query_embedding
LastCallFailed == c_last.service = "raise"

\* C15: when the embedding service raises, get_query_embedding returns
\* None and leaves the cache's entries and their order as they were, and
\* search_documents returns [] without a query to the vector store and
\* without raising.
C15_EmbeddingFailureGivesEmptyList ==
    LastCallFailed =>
        /\ c_last.result = "None"
        /\ c_cache = c_last.before
        /\ c_used = c_last.used_before
        /\ s_embedding = "None"
        /\ s_pc = "done"
        /\ s_out = <<>>
        /\ s_store_queries = 0

\* C15's case: the search missed a cache of two other entries, the service
\* raised, and the search ended with []
C15_Witness ==
    /\ LastCallFailed
    /\ Len(c_last.before) = 2
    /\ c_cache = c_last.before
    /\ s_pc = "done"
    /\ s_out = <<>>
    /\ s_store_queries = 0

\* ----------------------------------------------------------- specifications

\* is_descendant alone: the other components stay idle
OtherDescendant == <<expandVars, filterVars, truncVars, genVars, searchVars, orchVars, cacheVars, enhanceVars>>
InitDescendant ==
    DescInit /\ ExpandOff /\ FilterOff /\ TruncOff /\ GenOff /\ SearchOff /\ OrchOff /\ CacheOff /\ EnhanceOff
NextDescendant == CallIsDescendant /\ UNCHANGED OtherDescendant
SpecDescendant == InitDescendant /\ [][NextDescendant]_vars

\* expand_with_descendants alone: the other components stay idle
OtherExpand == <<descVars, filterVars, truncVars, genVars, searchVars, orchVars, cacheVars, enhanceVars>>
InitExpand ==
    ExpandInit /\ DescOff /\ FilterOff /\ TruncOff /\ GenOff /\ SearchOff /\ OrchOff /\ CacheOff /\ EnhanceOff
NextExpand ==
    \/ ExpandStart /\ UNCHANGED OtherExpand
    \/ ExpandSeed /\ UNCHANGED OtherExpand
    \/ ExpandReturn /\ UNCHANGED OtherExpand
SpecExpand == InitExpand /\ [][NextExpand]_vars

\* RelevanceFilter.filter alone: the other components stay idle
OtherFilter == <<descVars, expandVars, truncVars, genVars, searchVars, orchVars, cacheVars, enhanceVars>>
InitFilter ==
    FilterInit /\ DescOff /\ ExpandOff /\ TruncOff /\ GenOff /\ SearchOff /\ OrchOff /\ CacheOff /\ EnhanceOff
NextFilter ==
    \/ FilterNoCandidates /\ UNCHANGED OtherFilter
    \/ RelevanceCall /\ UNCHANGED OtherFilter
    \/ FilterFinish /\ UNCHANGED OtherFilter
SpecFilter == InitFilter /\ [][NextFilter]_vars

\* truncate_context_if_needed alone: the other components stay idle
OtherTruncate == <<descVars, expandVars, filterVars, genVars, searchVars, orchVars, cacheVars, enhanceVars>>
InitTruncate ==
    TruncInit /\ DescOff /\ ExpandOff /\ FilterOff /\ GenOff /\ SearchOff /\ OrchOff /\ CacheOff /\ EnhanceOff
NextTruncate == CallTruncate /\ UNCHANGED OtherTruncate
SpecTruncate == InitTruncate /\ [][NextTruncate]_vars

\* ResponseGenerator.generate alone: the other components stay idle
OtherGenerate == <<descVars, expandVars, filterVars, truncVars, searchVars, orchVars, cacheVars, enhanceVars>>
InitGenerate ==
    GenInit /\ DescOff /\ ExpandOff /\ FilterOff /\ TruncOff /\ SearchOff /\ OrchOff /\ CacheOff /\ EnhanceOff
NextGenerate ==
    \/ GenPrimaryCall /\ UNCHANGED OtherGenerate
    \/ GenReraise /\ UNCHANGED OtherGenerate
    \/ GenFallbackCall /\ UNCHANGED OtherGenerate
    \/ GenCheckAnswer /\ UNCHANGED OtherGenerate
    \/ GenFinish /\ UNCHANGED OtherGenerate
SpecGenerate == InitGenerate /\ [][NextGenerate]_vars

\* search_documents alone: the other components stay idle
OtherSearch == <<descVars, expandVars, filterVars, truncVars, genVars, orchVars, cacheVars, enhanceVars>>
InitSearch ==
    SearchInit /\ DescOff /\ ExpandOff /\ FilterOff /\ TruncOff /\ GenOff /\ OrchOff /\ CacheOff /\ EnhanceOff
NextSearch ==
    \/ SearchEmbedded /\ UNCHANGED OtherSearch
    \/ SearchNoEmbedding /\ UNCHANGED OtherSearch
    \/ SearchQueryRaises /\ UNCHANGED OtherSearch
    \/ SearchQuery /\ UNCHANGED OtherSearch
    \/ SearchFormat /\ UNCHANGED OtherSearch
SpecSearch == InitSearch /\ [][NextSearch]_vars

\* search_documents on an engine with a filled cache: the other components stay idle
OtherSearchCached == <<descVars, expandVars, filterVars, truncVars, genVars, orchVars, enhanceVars>>
InitSearchCached ==
    SearchCachedInit /\ SearchCacheInit /\ DescOff /\ ExpandOff /\ FilterOff /\ TruncOff /\ GenOff /\ OrchOff /\ EnhanceOff
NextSearchCached ==
    \/ SearchGetEmbedding /\ UNCHANGED OtherSearchCached
    \/ SearchQueryRaises /\ UNCHANGED cacheVars /\ UNCHANGED OtherSearchCached
    \/ SearchQuery /\ UNCHANGED cacheVars /\ UNCHANGED OtherSearchCached
    \/ SearchFormat /\ UNCHANGED cacheVars /\ UNCHANGED OtherSearchCached
SpecSearchCached == InitSearchCached /\ [][NextSearchCached]_vars

\* generate_rag_response alone, request after request, as rag/retrieval.py
\* and rag/config.py stand: every request ends in an error
OtherOrchestrator == <<descVars, expandVars, filterVars, truncVars, genVars, searchVars, cacheVars, enhanceVars>>
InitOrchestrator ==
    OrchInit /\ DescOff /\ ExpandOff /\ FilterOff /\ TruncOff /\ GenOff /\ SearchOff /\ CacheOff /\ EnhanceOff
NextOrchestrator ==
    \/ OrchPrepare /\ UNCHANGED OtherOrchestrator
    \/ OrchRetrieveRaises /\ UNCHANGED OtherOrchestrator
    \/ OrchRetrieve /\ UNCHANGED OtherOrchestrator
    \/ OrchKnowledgeFallback /\ UNCHANGED OtherOrchestrator
    \/ OrchDetectProcedural /\ UNCHANGED OtherOrchestrator
    \/ OrchNextRequest /\ UNCHANGED OtherOrchestrator
SpecOrchestrator == InitOrchestrator /\ [][NextOrchestrator]_vars

\* generate_rag_response on a retrieval engine that has
\* detect_procedural_intent: the stages after the detection are reached
OtherOrchestratorDetector == <<descVars, expandVars, filterVars, truncVars, genVars, searchVars, cacheVars, enhanceVars>>
InitOrchestratorDetector ==
    OrchInit /\ DescOff /\ ExpandOff /\ FilterOff /\ TruncOff /\ GenOff /\ SearchOff /\ CacheOff /\ EnhanceOff
NextOrchestratorDetector ==
    \/ OrchPrepare /\ UNCHANGED OtherOrchestratorDetector
    \/ OrchRetrieveRaises /\ UNCHANGED OtherOrchestratorDetector
    \/ OrchRetrieve /\ UNCHANGED OtherOrchestratorDetector
    \/ OrchKnowledgeFallback /\ UNCHANGED OtherOrchestratorDetector
    \/ OrchDetectProceduralSupplied /\ UNCHANGED OtherOrchestratorDetector
    \/ OrchProceduralMode /\ UNCHANGED OtherOrchestratorDetector
    \/ OrchReRetrieve /\ UNCHANGED OtherOrchestratorDetector
    \/ OrchExpandNeighbors /\ UNCHANGED OtherOrchestratorDetector
    \/ OrchFilter /\ UNCHANGED OtherOrchestratorDetector
    \/ OrchAssemble /\ UNCHANGED OtherOrchestratorDetector
    \/ OrchGenerate /\ UNCHANGED OtherOrchestratorDetector
    \/ OrchNextRequest /\ UNCHANGED OtherOrchestratorDetector
SpecOrchestratorDetector == InitOrchestratorDetector /\ [][NextOrchestratorDetector]_vars

\* generate_rag_response on a retrieval engine that has
\* detect_procedural_intent and expand_with_neighbors, with a
\* configuration that has neighbor_hops: the procedural path goes on past
\* the expansion
OtherOrchestratorNeighbors == <<descVars, expandVars, filterVars, truncVars, genVars, searchVars, cacheVars, enhanceVars>>
InitOrchestratorNeighbors ==
    OrchInit /\ DescOff /\ ExpandOff /\ FilterOff /\ TruncOff /\ GenOff /\ SearchOff /\ CacheOff /\ EnhanceOff
NextOrchestratorNeighbors ==
    \/ OrchPrepare /\ UNCHANGED OtherOrchestratorNeighbors
    \/ OrchRetrieveRaises /\ UNCHANGED OtherOrchestratorNeighbors
    \/ OrchRetrieve /\ UNCHANGED OtherOrchestratorNeighbors
    \/ OrchKnowledgeFallback /\ UNCHANGED OtherOrchestratorNeighbors
    \/ OrchDetectProceduralSupplied /\ UNCHANGED OtherOrchestratorNeighbors
    \/ OrchProceduralMode /\ UNCHANGED OtherOrchestratorNeighbors
    \/ OrchReRetrieve /\ UNCHANGED OtherOrchestratorNeighbors
    \/ OrchExpandNeighborsSupplied /\ UNCHANGED OtherOrchestratorNeighbors
    \/ OrchFilter /\ UNCHANGED OtherOrchestratorNeighbors
    \/ OrchAssemble /\ UNCHANGED OtherOrchestratorNeighbors
    \/ OrchGenerate /\ UNCHANGED OtherOrchestratorNeighbors
    \/ OrchNextRequest /\ UNCHANGED OtherOrchestratorNeighbors
SpecOrchestratorNeighbors == InitOrchestratorNeighbors /\ [][NextOrchestratorNeighbors]_vars

\* get_query_embedding, one call after the other: the other components stay idle
OtherCache == <<descVars, expandVars, filterVars, truncVars, genVars, searchVars, orchVars, enhanceVars>>
InitCache ==
    CacheInit /\ DescOff /\ ExpandOff /\ FilterOff /\ TruncOff /\ GenOff /\ SearchOff /\ OrchOff /\ EnhanceOff
NextCache == CallGetQueryEmbedding /\ UNCHANGED OtherCache
SpecCache == InitCache /\ [][NextCache]_vars

\* get_query_embedding, several calls in flight: the other components stay idle
OtherCacheConcurrent == <<descVars, expandVars, filterVars, truncVars, genVars, searchVars, orchVars, enhanceVars>>
InitCacheConcurrent ==
    CacheConcurrentInit /\ DescOff /\ ExpandOff /\ FilterOff /\ TruncOff /\ GenOff /\ SearchOff /\ OrchOff /\ EnhanceOff
NextCacheConcurrent ==
    \/ ThreadBegin /\ UNCHANGED OtherCacheConcurrent
    \/ ThreadLookup /\ UNCHANGED OtherCacheConcurrent
    \/ ThreadPromote /\ UNCHANGED OtherCacheConcurrent
    \/ ThreadService /\ UNCHANGED OtherCacheConcurrent
    \/ ThreadInsert /\ UNCHANGED OtherCacheConcurrent
    \/ ThreadMoveToEnd /\ UNCHANGED OtherCacheConcurrent
    \/ ThreadSizeCheck /\ UNCHANGED OtherCacheConcurrent
    \/ ThreadEvict /\ UNCHANGED OtherCacheConcurrent
SpecCacheConcurrent == InitCacheConcurrent /\ [][NextCacheConcurrent]_vars

\* enhance_query_for_search alone: the other components stay idle
OtherEnhance == <<descVars, expandVars, filterVars, truncVars, genVars, searchVars, orchVars, cacheVars>>
InitEnhance ==
    EnhanceInit /\ DescOff /\ ExpandOff /\ FilterOff /\ TruncOff /\ GenOff /\ SearchOff /\ OrchOff /\ CacheOff
NextEnhance ==
    \/ EnhanceQuery /\ UNCHANGED OtherEnhance
    \/ EnhanceAgain /\ UNCHANGED OtherEnhance
SpecEnhance == InitEnhance /\ [][NextEnhance]_vars

====
